---- MODULE Spec2Model ----
(***************************************************************************)
(* Verification model of the data-structure core of project_goldfish:      *)
(* CustomPriorityQueue, CustomHashMap, FQuadtree, SortingAlgorithms,       *)
(* FAStarPathfinding and the parts of AEnemyDirectorEnhanced that drive    *)
(* them.  Every component has its own specification (SpecPQ, SpecHM, ...)  *)
(* over its own variables; the variables of the other components stay at   *)
(* their idle values.                                                      *)
(*                                                                         *)
(* Conventions.  C++ arrays are 0-based; the heap operators keep the       *)
(* 0-based indices of the source and read a TLA+ sequence s at index i as  *)
(* s[i + 1] (the sorting section says where it is 1-based).  float values  *)
(* are modelled by integers: only their order and exact sums are used, and *)
(* the inputs are chosen so that every float operation of the source is    *)
(* exact on them (NaN is not an input); the one exception, FVector::Dist,  *)
(* is rounded down to a whole unit.                                        *)
(***************************************************************************)
EXTENDS Integers, Sequences, FiniteSets, TLC

VARIABLES
    Heap,       \* CustomPriorityQueue::Heap, a sequence of PQElement
    pqOut,      \* result of the last queue call: [ok, Element, Priority]
    pqLast,     \* name of the last queue call
    pqScript,   \* progress of the queue's call history through Scenario3
    pqRun,      \* how the last queue call's HeapifyUp or HeapifyDown loop ran
    Buckets,    \* CustomHashMap::Buckets: one chain (head first) per bucket
    Size,       \* CustomHashMap::Size
    Capacity,   \* CustomHashMap::Capacity
    hmOut,      \* result of the last map call: [ok, Value]
    hmLast,     \* the last map call: [op, Key], and whether it found Key stored
                \* (for Remove also where in its chain, and the chain's length)
    hmRef,      \* per key, the value of its latest Insert not yet removed or
                \* cleared, and whether a rehash happened since that Insert
    hmRehashes, \* number of Rehash calls so far
    hmRehashAt, \* Size right after the latest Insert that rehashed (0: none)
    qt,         \* the root FQuadtree node (a node holds its children)
    qtFault,    \* an Insert dereferenced a null child pointer: the process died
    qtOut,      \* result of the last quadtree call: [ok, Points]
    qtLast,     \* the last quadtree call: [op, arg]
    qtStored,   \* the points whose Insert returned true since the tree was empty
    qtCalls,    \* number of Insert calls since the tree was empty
    PEnemies,         \* AEnemyDirectorEnhanced::PEnemies: per enemy actor its
                      \* location (X/Y) and its BInArena flag
    SpatialPartition, \* AEnemyDirectorEnhanced::SpatialPartition (root node)
    TotalQueries,     \* AEnemyDirectorEnhanced::TotalQueries
    dirFault,   \* a rebuild dereferenced a null child pointer: the process died
    dirOut,     \* what the last director call returned (nothing if it
                \* returns nothing)
    dirLast,    \* the last director call: [op, Center, Radius]
    dirFresh,   \* no enemy moved or changed its flag since the last rebuild
    sortInput,     \* the array handed to the sorting functions
    sortPredicate, \* the comparator handed to the sorting functions
    sortQuick,     \* [done, Array]: the array after QuickSort, once called
    sortMerge,     \* [done, Array]: the array after MergeSort, once called
    AllNodes,   \* FindPath's AllNodes: the FAStarNode objects; a node pointer
                \* is an index into it, 0 the null pointer
    StartPos,   \* FindPath's StartPos
    EndPos,     \* FindPath's EndPos
    StartNode,  \* FindPath's local StartNode
    EndNode,    \* FindPath's local EndNode
    OpenList,   \* FindPath's local OpenList: the Heap of a CustomPriorityQueue
    ClosedList, \* FindPath's local ClosedList
    CurrentNode,\* FindPath's local CurrentNode
    Neighbors,  \* FindPath's local Neighbors: those the for loop has yet to visit
    OutPath,    \* FindPath's OutPath
    asPC,       \* where FindPath is: "call", "loop" (at the while test),
                \* "neighbors" (in the for loop) or "done"
    asResult,   \* what FindPath returned, once done
    Data,       \* CustomStack::Data, bottom first
    MaxCapacity,\* CustomStack::MaxCapacity
    stkOut,     \* what the last stack call returned
    stkLast,    \* the last stack call
    stkLive,    \* the pushes that succeeded and were not popped since, numbered
    stkPushes,  \* how many Push calls were made since construction or Clear
    stkScript,  \* progress of the call history through Scenario5
    SortedArray,\* the searches' SortedArray, run-length encoded
    Target,     \* the searches' Target
    srchOut,    \* what each search returned, once called
    EnemyRegistry,       \* AEnemyDirectorEnhanced::EnemyRegistry, a map value
    NextEnemyID,         \* AEnemyDirectorEnhanced::NextEnemyID
    ThreatQueue,         \* AEnemyDirectorEnhanced::ThreatQueue: its Heap
    m_bWaveIntermission, \* AEnemyDirectorEnhanced::m_bWaveIntermission
    ICurrentWave,        \* AEnemyDirectorEnhanced::ICurrentWave
    ICurrentWaveSize,    \* AEnemyDirectorEnhanced::ICurrentWaveSize
    IWaveKills,          \* AEnemyDirectorEnhanced::IWaveKills
    IMaxEnemiesInArena,  \* AEnemyDirectorEnhanced::IMaxEnemiesInArena
    pTimerHandleCurrent, \* the callback the director's timer is set to call
    edCalls,    \* number of query calls made on the director so far
    UndoStack,    \* UGameStateManager::UndoStack: its Data, bottom first
    RedoStack,    \* UGameStateManager::RedoStack: its Data, bottom first
    CurrentState, \* UGameStateManager::CurrentState
    gsmNow,       \* the latest reading of FPlatformTime::Seconds()
    gsmLast       \* the last call on the manager: what it was, what it
                  \* returned, and the CurrentState and stacks it found

pqVars == <<Heap, pqOut, pqLast, pqScript, pqRun>>
hmVars == <<Buckets, Size, Capacity, hmOut, hmLast, hmRef, hmRehashes, hmRehashAt>>

qtVars == <<qt, qtFault, qtOut, qtLast, qtStored, qtCalls>>

dirVars == <<PEnemies, SpatialPartition, TotalQueries, dirFault, dirOut, dirLast, dirFresh>>

sortVars == <<sortInput, sortPredicate, sortQuick, sortMerge>>

asVars == <<AllNodes, StartPos, EndPos, StartNode, EndNode, OpenList, ClosedList,
           CurrentNode, Neighbors, OutPath, asPC, asResult>>

stkVars == <<Data, MaxCapacity, stkOut, stkLast, stkLive, stkPushes, stkScript>>

srchVars == <<SortedArray, Target, srchOut>>

edVars == <<EnemyRegistry, NextEnemyID, ThreatQueue, m_bWaveIntermission, ICurrentWave,
           ICurrentWaveSize, IWaveKills, IMaxEnemiesInArena, pTimerHandleCurrent, edCalls>>

gsmVars == <<UndoStack, RedoStack, CurrentState, gsmNow, gsmLast>>

vars == <<pqVars, hmVars, qtVars, dirVars, sortVars, asVars, stkVars, srchVars, edVars,
         gsmVars>>

\* What the calls of one component leave alone: the other components.
PQOthers == <<hmVars, qtVars, dirVars, sortVars, asVars, stkVars, srchVars, edVars, gsmVars>>
HMOthers == <<pqVars, qtVars, dirVars, sortVars, asVars, stkVars, srchVars, edVars, gsmVars>>
QTOthers == <<pqVars, hmVars, dirVars, sortVars, asVars, stkVars, srchVars, edVars, gsmVars>>
DirOthers == <<pqVars, hmVars, qtVars, sortVars, asVars, stkVars, srchVars, edVars, gsmVars>>
SortOthers == <<pqVars, hmVars, qtVars, dirVars, asVars, stkVars, srchVars, edVars, gsmVars>>
AStarOthers == <<pqVars, hmVars, qtVars, dirVars, sortVars, stkVars, srchVars, edVars, gsmVars>>
StackOthers == <<pqVars, hmVars, qtVars, dirVars, sortVars, asVars, srchVars, edVars, gsmVars>>
SearchOthers == <<pqVars, hmVars, qtVars, dirVars, sortVars, asVars, stkVars, edVars, gsmVars>>
\* The director's calls change dirVars and edVars.
EDOthers == <<pqVars, hmVars, qtVars, sortVars, asVars, stkVars, srchVars, gsmVars>>
GSMOthers == <<pqVars, hmVars, qtVars, dirVars, sortVars, asVars, stkVars, srchVars, edVars>>

(***************************************************************************)
(* Generic helpers.                                                        *)
(***************************************************************************)
\* C++ integer division, which truncates toward zero.
CDiv(a, b) == IF a >= 0 THEN a \div b ELSE -((-a) \div b)

Range(s) == {s[i] : i \in DOMAIN s}

(***************************************************************************)
(* CustomPriorityQueue                                                     *)
(***************************************************************************)
MaxHeap == 4     \* longest heap explored outside Scenario3
MaxPrio == 4     \* priorities are drawn from 1..MaxPrio outside Scenario3
PQMaxSteps == 8  \* iterations followed per HeapifyUp or HeapifyDown loop
PQElems == {1, 2}    \* the elements queued (an element may be queued twice)

PQElement(e, p) == [Element |-> e, Priority |-> p]

\* Mutant of PQLess: equal priorities count as smaller.
PQLess_OrEqual(a, b) == a.Priority <= b.Priority

\* PQElement::operator<
PQLess(a, b) == a.Priority < b.Priority

GetParentIndex(Index) == CDiv(Index - 1, 2)
GetLeftChildIndex(Index) == 2 * Index + 1
GetRightChildIndex(Index) == 2 * Index + 2
HasParent(Index) == GetParentIndex(Index) >= 0
HasLeftChild(h, Index) == GetLeftChildIndex(Index) < Len(h)
HasRightChild(h, Index) == GetRightChildIndex(Index) < Len(h)

PQSwap(h, IndexA, IndexB) ==
    [h EXCEPT ![IndexA + 1] = h[IndexB + 1], ![IndexB + 1] = h[IndexA + 1]]

InHeap(h, Index) == Index >= 0 /\ Index < Len(h)

\* How a HeapifyUp or HeapifyDown loop ran: the heap it left, the Index it
\* ended at, how many swaps it made, whether a swap exchanged two equal
\* priorities (Ties), whether every index it read or swapped was in
\* [0, Heap.Num() - 1] (Inside; the loop is followed up to its first access
\* outside), and whether it ended within PQMaxSteps iterations (Ends).
PQRun(h, Index, s, t, in, ends) ==
    [heap |-> h, Index |-> Index, Swaps |-> s, Ties |-> t, Inside |-> in, Ends |-> ends]

\* The loop of HeapifyUp.  The condition reads Heap[Index] and
\* Heap[GetParentIndex(Index)] whenever HasParent(Index).
RECURSIVE HeapifyUpRun(_, _, _, _)
HeapifyUpRun(h, Index, s, fuel) ==
    CASE fuel = 0 -> PQRun(h, Index, s, FALSE, TRUE, FALSE)
      [] ~HasParent(Index) -> PQRun(h, Index, s, FALSE, TRUE, TRUE)
      [] ~InHeap(h, Index) \/ ~InHeap(h, GetParentIndex(Index)) ->
             PQRun(h, Index, s, FALSE, FALSE, TRUE)
      [] PQLess(h[Index + 1], h[GetParentIndex(Index) + 1]) ->
             HeapifyUpRun(PQSwap(h, Index, GetParentIndex(Index)), GetParentIndex(Index),
                          s + 1, fuel - 1)
      [] OTHER -> PQRun(h, Index, s, FALSE, TRUE, TRUE)

HeapifyUp(h, Index) == HeapifyUpRun(h, Index, 0, PQMaxSteps).heap

\* Mutant of SmallerChildIndex: the right child is never looked at.
SmallerChildIndex_LeftOnly(h, Index) == GetLeftChildIndex(Index)

\* The child HeapifyDown compares the node with: the right one only when it
\* is strictly smaller than the left one.
SmallerChildIndex(h, Index) ==
    IF HasRightChild(h, Index)
       /\ PQLess(h[GetRightChildIndex(Index) + 1], h[GetLeftChildIndex(Index) + 1])
    THEN GetRightChildIndex(Index)
    ELSE GetLeftChildIndex(Index)

\* The loop of HeapifyDown.  An iteration reads Heap[Index], the left child
\* and, when HasRightChild(Index), the right child; it swaps unless
\* Heap[Index] is strictly smaller than the smaller child.
RECURSIVE HeapifyDownRun(_, _, _, _, _)
HeapifyDownRun(h, Index, s, t, fuel) ==
    CASE fuel = 0 -> PQRun(h, Index, s, t, TRUE, FALSE)
      [] ~HasLeftChild(h, Index) -> PQRun(h, Index, s, t, TRUE, TRUE)
      [] \/ ~InHeap(h, Index) \/ ~InHeap(h, GetLeftChildIndex(Index))
         \/ HasRightChild(h, Index) /\ ~InHeap(h, GetRightChildIndex(Index)) ->
             PQRun(h, Index, s, t, FALSE, TRUE)
      [] OTHER ->
             LET c == SmallerChildIndex(h, Index)
             IN  IF PQLess(h[Index + 1], h[c + 1]) THEN PQRun(h, Index, s, t, TRUE, TRUE)
                 ELSE HeapifyDownRun(PQSwap(h, Index, c), c, s + 1,
                                     t \/ h[Index + 1].Priority = h[c + 1].Priority,
                                     fuel - 1)

HeapifyDown(h, Index) == HeapifyDownRun(h, Index, 0, FALSE, PQMaxSteps).heap

\* A call that runs neither loop.
NoRun(h) == PQRun(h, 0, 0, FALSE, TRUE, TRUE)

\* What pqRun keeps of a run: whether the loop swapped its way to index 0
\* (Root), and Ties, Inside and Ends.
Ran(r) == [Root |-> r.Swaps >= 1 /\ r.Index = 0, Ties |-> r.Ties,
           Inside |-> r.Inside /\ (InHeap(r.heap, r.Index) \/ r.heap = <<>>),
           Ends |-> r.Ends]

\* The loop an Enqueue call runs.
EnqueueRun(h, e, p) == HeapifyUpRun(Append(h, PQElement(e, p)), Len(h), 0, PQMaxSteps)

\* The loop a Dequeue call runs; before it the call reads Heap[0] and
\* Heap[Heap.Num() - 1] of a heap that is not empty, moves the last element
\* to the root and removes the last slot.
DequeueRun(h) ==
    IF Len(h) = 0 THEN NoRun(h)
    ELSE IF Len(h) = 1 THEN NoRun(<<>>)
    ELSE HeapifyDownRun(SubSeq([h EXCEPT ![1] = h[Len(h)]], 1, Len(h) - 1), 0, 0, FALSE,
                        PQMaxSteps)

\* The loop an UpdatePriority call runs on the first array slot holding
\* Element, re-prioritised; before it the scan reads Heap[0] .. Heap[i],
\* i < Heap.Num().
UpdatePriorityRun(h, e, NewPriority) ==
    LET hits == {i \in 0..(Len(h) - 1) : h[i + 1].Element = e}
    IN  IF hits = {} THEN NoRun(h)
        ELSE LET i == CHOOSE x \in hits : \A y \in hits : x <= y
                 h2 == [h EXCEPT ![i + 1].Priority = NewPriority]
             IN  IF NewPriority < h[i + 1].Priority
                 THEN HeapifyUpRun(h2, i, 0, PQMaxSteps)
                 ELSE HeapifyDownRun(h2, i, 0, FALSE, PQMaxSteps)

Enqueue(h, e, p) == EnqueueRun(h, e, p).heap

\* Dequeue: [ok, heap, Element, Priority]; Priority is the priority the
\* returned element had in the heap (the code returns the element only).
Dequeue(h) ==
    IF Len(h) = 0
    THEN [ok |-> FALSE, heap |-> h, Element |-> 0, Priority |-> 0]
    ELSE [ok |-> TRUE,
          heap |-> DequeueRun(h).heap,
          Element |-> h[1].Element,
          Priority |-> h[1].Priority]

Peek(h) ==
    IF Len(h) = 0
    THEN [ok |-> FALSE, Element |-> 0, Priority |-> 0]
    ELSE [ok |-> TRUE, Element |-> h[1].Element, Priority |-> h[1].Priority]

\* UpdatePriority: the first array slot holding Element is re-prioritised.
UpdatePriority(h, e, NewPriority) ==
    [ok |-> \E i \in 0..(Len(h) - 1) : h[i + 1].Element = e,
     heap |-> UpdatePriorityRun(h, e, NewPriority).heap]

PQContains(h, e) == \E i \in 1..Len(h) : h[i].Element = e

\* Scenario 3 of the specification as a call history: five Enqueue calls
\* with these priorities, then five Dequeue calls.
Scenario3 == <<5, 1, 3, 2, 4, 0, 0, 0, 0, 0>>

\* pqScript counts how many calls of Scenario3 the history since the last
\* empty start has followed; -1 once it left the scenario.  p = 0: Dequeue.
ScriptStep(s, p) ==
    IF s >= 0 /\ s < Len(Scenario3) /\ Scenario3[s + 1] = p THEN s + 1 ELSE -1

NoOut == [ok |-> FALSE, Element |-> 0, Priority |-> 0]

PQStart ==
    /\ Heap = <<>>
    /\ pqOut = NoOut
    /\ pqLast = "init"
    /\ pqScript = 0
    /\ pqRun = Ran(NoRun(<<>>))

\* Enqueue is explored up to the bounds, and beyond them along Scenario3.
PQEnqueue(e, p) ==
    /\ \/ Len(Heap) < MaxHeap /\ p <= MaxPrio
       \/ ScriptStep(pqScript, p) > 0
    /\ \E r \in {EnqueueRun(Heap, e, p)} :
          /\ Heap' = r.heap
          /\ pqRun' = Ran(r)
    /\ pqOut' = NoOut
    /\ pqLast' = "Enqueue"
    /\ pqScript' = ScriptStep(pqScript, p)
    /\ UNCHANGED PQOthers

PQDequeue ==
    LET r == Dequeue(Heap)
    IN  /\ Heap' = r.heap
        /\ pqOut' = [ok |-> r.ok, Element |-> r.Element, Priority |-> r.Priority]
        /\ pqLast' = "Dequeue"
        /\ pqScript' = ScriptStep(pqScript, 0)
        /\ pqRun' = Ran(DequeueRun(Heap))
        /\ UNCHANGED PQOthers

PQPeek ==
    /\ Heap' = Heap
    /\ pqOut' = Peek(Heap)
    /\ pqLast' = "Peek"
    /\ pqScript' = pqScript
    /\ pqRun' = Ran(NoRun(Heap))
    /\ UNCHANGED PQOthers

PQUpdatePriority(e, p) ==
    LET r == UpdatePriority(Heap, e, p)
    IN  /\ Heap' = r.heap
        /\ pqOut' = [NoOut EXCEPT !.ok = r.ok]
        /\ pqLast' = "UpdatePriority"
        /\ pqScript' = -1
        /\ pqRun' = Ran(UpdatePriorityRun(Heap, e, p))
        /\ UNCHANGED PQOthers

PQClear ==
    /\ Heap' = <<>>
    /\ pqOut' = NoOut
    /\ pqLast' = "Clear"
    /\ pqScript' = 0
    /\ pqRun' = Ran(NoRun(<<>>))
    /\ UNCHANGED PQOthers

PQNext ==
    \/ \E e \in PQElems, p \in 1..MaxPrio \cup (Range(Scenario3) \ {0}) : PQEnqueue(e, p)
    \/ PQDequeue
    \/ PQPeek
    \/ \E e \in PQElems, p \in 1..MaxPrio : PQUpdatePriority(e, p)
    \/ PQClear

\* C39: every Enqueue, Dequeue and UpdatePriority call ends, and its
\* HeapifyUp or HeapifyDown loop reads and swaps only indices in
\* [0, Size - 1]: also when the bubbled element reaches the root, where
\* GetParentIndex(0) is 0 and HasParent(0) is true, and when priorities are
\* equal, where HeapifyDown swaps.
C39_HeapifyStaysInside ==
    /\ GetParentIndex(0) = 0 /\ HasParent(0)
    /\ pqRun.Ends /\ pqRun.Inside

\* An Enqueue or UpdatePriority bubbled its element up to the root, where the
\* loop tested the root against itself and ended.
C39_Witness ==
    /\ pqLast \in {"Enqueue", "UpdatePriority"}
    /\ pqRun.Root /\ Len(Heap) > 3

\* A Dequeue sank the moved element past a child of equal priority.
C39_WitnessTie == pqLast = "Dequeue" /\ pqRun.Ties

\* Every parent's priority is <= both children's priorities.
HeapOrdered(h) ==
    \A i \in 1..(Len(h) - 1) : h[GetParentIndex(i) + 1].Priority <= h[i + 1].Priority

(* C1: after every Enqueue, Dequeue and UpdatePriority every parent's        *)
(* priority is <= both children's, each successful Dequeue returns an        *)
(* element whose priority is <= every priority still queued, and Enqueue of  *)
(* priorities 5,1,3,2,4 followed by five Dequeue calls yields 1,2,3,4,5.     *)
C1_MinHeap ==
    /\ HeapOrdered(Heap)
    /\ (pqLast = "Dequeue" /\ pqOut.ok)
           => \A i \in 1..Len(Heap) : pqOut.Priority <= Heap[i].Priority
    /\ (pqLast = "Dequeue" /\ pqScript > 5)
           => (pqOut.ok /\ pqOut.Priority = pqScript - 5)

\* Scenario 3 ran to its end: the fifth Dequeue has returned.
C1_Witness == pqScript = 10 /\ pqLast = "Dequeue" /\ pqOut.ok /\ Heap = <<>>

(***************************************************************************)
(* CustomHashMap<int32, AActor*>                                           *)
(***************************************************************************)
HMInitialCapacity == 1   \* constructor argument of the map explored by SpecHM
MaxKey == 1              \* SpecHM draws keys from -1..MaxKey
DefaultCapacity == 16    \* default InitialCapacity
NumKeys16 == 14          \* SpecHM16 inserts up to NumKeys16 distinct keys
Window16 == 2            \* ... each among the Window16 smallest keys not yet in

HMKeys == -1..MaxKey
HMVals == {1, 2}
\* Keys of SpecHM16: some share a bucket at capacity 16, none at capacity 32.
KeyPool16 == {6 * i : i \in 0..(NumKeys16 - 1)}
AllKeys == HMKeys \cup KeyPool16

HashNode(k, v) == [Key |-> k, Value |-> v]

\* uint32(k) % cap for an int32 k: GetTypeHash(int32) is the key converted to
\* uint32, i.e. k + 2^32 for a negative k (2^32 = 65536 * 65536, reduced
\* modulo cap factor by factor to stay within TLC's 32-bit integers).
UInt32Mod(k, cap) ==
    IF k >= 0 THEN k % cap
    ELSE ((k % cap) + (((65536 % cap) * (65536 % cap)) % cap)) % cap

\* Hash: the (0-based) bucket index of a key.
Hash(cap, k) == IF cap = 0 THEN 0 ELSE UInt32Mod(k, cap)

\* (float)Size / Capacity > LoadFactor, with LoadFactor = 0.75f.
\* Mutant: the threshold itself already triggers the rehash.
OverLoadFactor_AtThreshold(m) == 4 * m.Size >= 3 * m.Capacity

OverLoadFactor(m) == 4 * m.Size > 3 * m.Capacity

EmptyBuckets(cap) == [i \in 1..cap |-> <<>>]

\* The nodes of the old bucket array in the order Rehash visits them:
\* bucket by bucket, each chain from its head.
RECURSIVE ChainsFrom(_, _)
ChainsFrom(buckets, i) ==
    IF i > Len(buckets) THEN <<>> ELSE buckets[i] \o ChainsFrom(buckets, i + 1)

\* Mutant of RehashOrder: only the head of each chain is re-inserted.
RECURSIVE HeadsFrom(_, _)
HeadsFrom(buckets, i) ==
    IF i > Len(buckets) THEN <<>>
    ELSE (IF buckets[i] = <<>> THEN <<>> ELSE <<buckets[i][1]>>) \o HeadsFrom(buckets, i + 1)

RehashOrder_HeadsOnly(buckets) == HeadsFrom(buckets, 1)

RehashOrder(buckets) == ChainsFrom(buckets, 1)

\* A map value: [Buckets, Size, Capacity, Rehashes]; Rehashes counts the
\* Rehash calls made on it.
RECURSIVE Insert(_, _, _)
RECURSIVE InsertAll(_, _)
InsertAll(m, nodes) ==
    IF nodes = <<>> THEN m
    ELSE InsertAll(Insert(m, nodes[1].Key, nodes[1].Value), Tail(nodes))

Rehash(m) ==
    InsertAll([Buckets |-> EmptyBuckets(2 * m.Capacity), Size |-> 0,
               Capacity |-> 2 * m.Capacity, Rehashes |-> m.Rehashes + 1],
              RehashOrder(m.Buckets))

\* Mutant of Insert: a key that is already stored gets a second node at the
\* head of its chain.
Insert_AddsNode(m, k, v) ==
    LET m1 == IF OverLoadFactor(m) THEN Rehash(m) ELSE m
        Index == Hash(m1.Capacity, k)
    IN  [m1 EXCEPT !.Buckets[Index + 1] = <<HashNode(k, v)>> \o m1.Buckets[Index + 1],
                   !.Size = m1.Size + 1]

Insert(m, k, v) ==
    LET m1 == IF OverLoadFactor(m) THEN Rehash(m) ELSE m
        Index == Hash(m1.Capacity, k)
        chain == m1.Buckets[Index + 1]
        hits == {i \in 1..Len(chain) : chain[i].Key = k}
    IN  IF hits # {}
        THEN [m1 EXCEPT !.Buckets[Index + 1] =
                 [i \in 1..Len(chain) |->
                     IF i = CHOOSE x \in hits : \A y \in hits : x <= y
                     THEN HashNode(k, v) ELSE chain[i]]]
        ELSE [m1 EXCEPT !.Buckets[Index + 1] = <<HashNode(k, v)>> \o chain,
                        !.Size = m1.Size + 1]

NoValue == 0

Find(m, k) ==
    IF m.Capacity = 0 THEN [ok |-> FALSE, Value |-> NoValue]
    ELSE LET chain == m.Buckets[Hash(m.Capacity, k) + 1]
             hits == {i \in 1..Len(chain) : chain[i].Key = k}
         IN  IF hits = {} THEN [ok |-> FALSE, Value |-> NoValue]
             ELSE [ok |-> TRUE,
                   Value |-> chain[CHOOSE x \in hits : \A y \in hits : x <= y].Value]

\* Mutant of Remove: a key that is not stored takes the head of its bucket
\* with it.
Remove_DropsHead(m, k) ==
    IF m.Capacity = 0 THEN [ok |-> FALSE, map |-> m]
    ELSE LET Index == Hash(m.Capacity, k)
             chain == m.Buckets[Index + 1]
             hits == {i \in 1..Len(chain) : chain[i].Key = k}
             at == IF hits = {} THEN 1 ELSE CHOOSE x \in hits : \A y \in hits : x <= y
         IN  IF chain = <<>> THEN [ok |-> FALSE, map |-> m]
             ELSE [ok |-> hits # {},
                   map |-> [m EXCEPT
                       !.Buckets[Index + 1] =
                           SubSeq(chain, 1, at - 1) \o SubSeq(chain, at + 1, Len(chain)),
                       !.Size = m.Size - 1]]

\* Mutant of Remove: the nodes after the key's node leave the chain with it.
Remove_UnlinksRest(m, k) ==
    IF m.Capacity = 0 THEN [ok |-> FALSE, map |-> m]
    ELSE LET Index == Hash(m.Capacity, k)
             chain == m.Buckets[Index + 1]
             hits == {i \in 1..Len(chain) : chain[i].Key = k}
         IN  IF hits = {} THEN [ok |-> FALSE, map |-> m]
             ELSE LET at == CHOOSE x \in hits : \A y \in hits : x <= y
                  IN  [ok |-> TRUE,
                       map |-> [m EXCEPT
                           !.Buckets[Index + 1] = SubSeq(chain, 1, at - 1),
                           !.Size = m.Size - 1]]

\* Mutant of Remove: Size is left as it is.
Remove_KeepsSize(m, k) ==
    IF m.Capacity = 0 THEN [ok |-> FALSE, map |-> m]
    ELSE LET Index == Hash(m.Capacity, k)
             chain == m.Buckets[Index + 1]
             hits == {i \in 1..Len(chain) : chain[i].Key = k}
         IN  IF hits = {} THEN [ok |-> FALSE, map |-> m]
             ELSE LET at == CHOOSE x \in hits : \A y \in hits : x <= y
                  IN  [ok |-> TRUE,
                       map |-> [m EXCEPT
                           !.Buckets[Index + 1] =
                               SubSeq(chain, 1, at - 1) \o SubSeq(chain, at + 1, Len(chain))]]

Remove(m, k) ==
    IF m.Capacity = 0 THEN [ok |-> FALSE, map |-> m]
    ELSE LET Index == Hash(m.Capacity, k)
             chain == m.Buckets[Index + 1]
             hits == {i \in 1..Len(chain) : chain[i].Key = k}
         IN  IF hits = {} THEN [ok |-> FALSE, map |-> m]
             ELSE LET at == CHOOSE x \in hits : \A y \in hits : x <= y
                  IN  [ok |-> TRUE,
                       map |-> [m EXCEPT
                           !.Buckets[Index + 1] =
                               SubSeq(chain, 1, at - 1) \o SubSeq(chain, at + 1, Len(chain)),
                           !.Size = m.Size - 1]]

Clear(m) == [m EXCEPT !.Buckets = EmptyBuckets(m.Capacity), !.Size = 0]

HMap == [Buckets |-> Buckets, Size |-> Size, Capacity |-> Capacity, Rehashes |-> hmRehashes]

NoEntry == [Value |-> NoValue, Rehashed |-> FALSE]

HMStart(cap) ==
    /\ Buckets = EmptyBuckets(cap)
    /\ Size = 0
    /\ Capacity = cap
    /\ hmOut = [ok |-> FALSE, Value |-> NoValue]
    /\ hmLast = [op |-> "init", Key |-> 0, Had |-> FALSE]
    /\ hmRef = [k \in AllKeys |-> NoEntry]
    /\ hmRehashes = 0
    /\ hmRehashAt = 0


HMInsert(k, v) ==
    LET m == Insert(HMap, k, v)
    IN  /\ Buckets' = m.Buckets
        /\ Size' = m.Size
        /\ Capacity' = m.Capacity
        /\ hmRehashes' = m.Rehashes
        /\ hmRehashAt' = IF m.Rehashes # hmRehashes THEN m.Size ELSE hmRehashAt
        /\ hmOut' = [ok |-> TRUE, Value |-> NoValue]
        /\ hmLast' = [op |-> "Insert", Key |-> k, Had |-> Find(HMap, k).ok]
        /\ UNCHANGED HMOthers
        /\ hmRef' = [x \in AllKeys |->
                        IF x = k THEN [Value |-> v, Rehashed |-> FALSE]
                        ELSE IF m.Rehashes # hmRehashes /\ hmRef[x] # NoEntry
                             THEN [hmRef[x] EXCEPT !.Rehashed = TRUE]
                             ELSE hmRef[x]]

HMFind(k) ==
    /\ hmOut' = Find(HMap, k)
    /\ hmLast' = [op |-> "Find", Key |-> k, Had |-> Find(HMap, k).ok]
    /\ UNCHANGED <<Buckets, Size, Capacity, hmRef, hmRehashes, hmRehashAt>>
    /\ UNCHANGED HMOthers

\* The place of the key's node in its bucket chain, counted from the head
\* (1) on; 0 if the key has no node.
PlaceInChain(m, k) ==
    LET chain == m.Buckets[Hash(m.Capacity, k) + 1]
        hits == {i \in 1..Len(chain) : chain[i].Key = k}
    IN  IF hits = {} THEN 0 ELSE CHOOSE x \in hits : \A y \in hits : x <= y

HMRemove(k) ==
    LET r == Remove(HMap, k)
    IN  /\ Buckets' = r.map.Buckets
        /\ Size' = r.map.Size
        /\ hmOut' = [ok |-> r.ok, Value |-> NoValue]
        /\ hmLast' = [op |-> "Remove", Key |-> k, Had |-> Find(HMap, k).ok,
                      At |-> PlaceInChain(HMap, k),
                      Of |-> Len(Buckets[Hash(Capacity, k) + 1])]
        /\ hmRef' = [hmRef EXCEPT ![k] = NoEntry]
        /\ UNCHANGED <<Capacity, hmRehashes, hmRehashAt>>
        /\ UNCHANGED HMOthers

HMClear ==
    /\ Buckets' = Clear(HMap).Buckets
    /\ Size' = Clear(HMap).Size
    /\ hmOut' = [ok |-> TRUE, Value |-> NoValue]
    /\ hmLast' = [op |-> "Clear", Key |-> 0, Had |-> FALSE]
    /\ hmRef' = [k \in AllKeys |-> NoEntry]
    /\ UNCHANGED <<Capacity, hmRehashes, hmRehashAt>>
    /\ UNCHANGED HMOthers

\* CustomHashMap::Contains
ContainsKey(m, k) ==
    IF m.Capacity = 0 THEN FALSE
    ELSE \E i \in 1..Len(m.Buckets[Hash(m.Capacity, k) + 1]) :
             m.Buckets[Hash(m.Capacity, k) + 1][i].Key = k

HMContains(k) ==
    /\ hmOut' = [ok |-> ContainsKey(HMap, k), Value |-> NoValue]
    /\ hmLast' = [op |-> "Contains", Key |-> k, Had |-> Find(HMap, k).ok]
    /\ UNCHANGED <<Buckets, Size, Capacity, hmRef, hmRehashes, hmRehashAt>>
    /\ UNCHANGED HMOthers

HMNext ==
    \/ \E k \in HMKeys, v \in HMVals : HMInsert(k, v)
    \/ \E k \in HMKeys : HMFind(k)
    \/ \E k \in HMKeys : HMRemove(k)
    \/ HMClear

\* SpecHM16: a map of the default capacity that receives distinct keys,
\* each with the entity reference 100 + key, and is looked up.
HMInsertDistinct(k) ==
    /\ hmRef[k] = NoEntry
    /\ Cardinality({x \in KeyPool16 : x < k /\ hmRef[x] = NoEntry}) < Window16
    /\ HMInsert(k, 100 + k)

HMNext16 ==
    \/ \E k \in KeyPool16 : HMInsertDistinct(k)
    \/ \E k \in KeyPool16 : HMFind(k)

\* Every key of hmRef is found with its value.
AllFindable == \A k \in AllKeys :
    hmRef[k] # NoEntry => Find(HMap, k) = [ok |-> TRUE, Value |-> hmRef[k].Value]

(* C2: Find(k) returns true with the value of the most recent Insert(k, v)  *)
(* while k has not been removed and the map not cleared since, also across  *)
(* the rehashes that inserts of other keys trigger.                         *)
C2_FindAfterInsert ==
    /\ AllFindable
    /\ (hmLast.op = "Find" /\ hmRef[hmLast.Key] # NoEntry)
           => hmOut = [ok |-> TRUE, Value |-> hmRef[hmLast.Key].Value]

\* A key is found after a rehash that happened since its Insert, in a map
\* that has rehashed twice.
C2_Witness ==
    /\ hmLast.op = "Find" /\ hmOut.ok
    /\ hmRef[hmLast.Key].Rehashed
    /\ hmRehashes >= 2

(* C10 as stated: in a map of initial capacity 16 the 13th Insert of a      *)
(* distinct key rehashes, so that with 13 keys stored there has been        *)
(* exactly one rehash, the capacity is 32 and every key is findable.        *)
C10_RehashOn13th ==
    Size = 13 => (hmRehashes = 1 /\ hmRehashAt = 13 /\ Capacity = 32 /\ AllFindable)

(* C10 amended: inserting 13 distinct keys into a map of initial capacity   *)
(* 16 triggers no rehash (capacity stays 16); the one rehash happens during *)
(* the 14th Insert and leaves the capacity at 32; every inserted key is     *)
(* findable before and after it.                                            *)
C10_RehashOn14th ==
    /\ Size <= 13 => (hmRehashes = 0 /\ Capacity = 16)
    /\ Size = 14 => (hmRehashes = 1 /\ hmRehashAt = 14 /\ Capacity = 32)
    /\ AllFindable

\* The 14th distinct key went in and a key is looked up.
C10_Witness == Size = 14 /\ hmRehashes = 1 /\ hmLast.op = "Find" /\ hmOut.ok

\* The chain nodes of the map that hold key k.
NodesWithKey(m, k) ==
    {<<b, i>> \in (1..m.Capacity) \X (1..m.Size) :
        i <= Len(m.Buckets[b]) /\ m.Buckets[b][i].Key = k}

\* C18: Insert(k, v2) on a map that already contains key k replaces the
\* stored value in place: afterwards Find(k) yields v2, GetSize() is
\* unchanged, k occurs in exactly one chain node, and the values of all
\* other keys are unchanged.
C18_InsertOverwrites ==
    [][ (hmLast'.op = "Insert" /\ Find(HMap, hmLast'.Key).ok) =>
            /\ Find(HMap', hmLast'.Key) = [ok |-> TRUE, Value |-> hmRef'[hmLast'.Key].Value]
            /\ Size' = Size
            /\ Cardinality(NodesWithKey(HMap', hmLast'.Key)) = 1
            /\ \A x \in HMKeys \ {hmLast'.Key} : Find(HMap', x) = Find(HMap, x) ]_vars

\* An Insert found its key stored, next to another key, and the map was
\* rehashed by that call.
C18_Witness ==
    /\ hmLast.op = "Insert" /\ hmLast.Had
    /\ Size = 2 /\ Capacity = 4 /\ hmRehashAt = 2
    /\ \E x \in HMKeys : hmRef[x] # NoEntry /\ hmRef[x].Rehashed

(***************************************************************************)
(* FQuadtree                                                               *)
(*                                                                         *)
(* Coordinates are integers in a unit chosen per tree so that the root's   *)
(* half size is 2^MAX_DEPTH times an integer: HalfSize * 0.5f is then      *)
(* exact at every depth, as it is in float for the trees of the source.    *)
(***************************************************************************)
MAX_CAPACITY == 4
MAX_DEPTH == 8
MaxInserts == 6      \* Insert calls explored between two Clear calls

Vec(x, y) == [X |-> x, Y |-> y]
FQuadtreeBounds(c, h) == [Center |-> c, HalfSize |-> h]
FQuadtreePoint(pos, data) == [Position |-> pos, Data |-> data]

\* Mutant of Contains: the edges of the rectangle are outside.
Contains_Strict(b, Point) ==
    /\ Point.X > b.Center.X - b.HalfSize.X
    /\ Point.X < b.Center.X + b.HalfSize.X
    /\ Point.Y > b.Center.Y - b.HalfSize.Y
    /\ Point.Y < b.Center.Y + b.HalfSize.Y

\* FQuadtreeBounds::Contains
Contains(b, Point) ==
    /\ Point.X >= b.Center.X - b.HalfSize.X
    /\ Point.X <= b.Center.X + b.HalfSize.X
    /\ Point.Y >= b.Center.Y - b.HalfSize.Y
    /\ Point.Y <= b.Center.Y + b.HalfSize.Y

\* Mutant of Intersects: rectangles that only share an edge do not intersect.
Intersects_Strict(b, Other) ==
    ~ \/ Other.Center.X - Other.HalfSize.X >= b.Center.X + b.HalfSize.X
      \/ Other.Center.X + Other.HalfSize.X <= b.Center.X - b.HalfSize.X
      \/ Other.Center.Y - Other.HalfSize.Y >= b.Center.Y + b.HalfSize.Y
      \/ Other.Center.Y + Other.HalfSize.Y <= b.Center.Y - b.HalfSize.Y

\* FQuadtreeBounds::Intersects
Intersects(b, Other) ==
    ~ \/ Other.Center.X - Other.HalfSize.X > b.Center.X + b.HalfSize.X
      \/ Other.Center.X + Other.HalfSize.X < b.Center.X - b.HalfSize.X
      \/ Other.Center.Y - Other.HalfSize.Y > b.Center.Y + b.HalfSize.Y
      \/ Other.Center.Y + Other.HalfSize.Y < b.Center.Y - b.HalfSize.Y

\* FQuadtree constructor.  Children is <<>> while the four child pointers
\* are null, and <<NorthWest, NorthEast, SouthWest, SouthEast>> afterwards.
FQuadtree(InBoundary, Depth) ==
    [Boundary |-> InBoundary, Points |-> <<>>, CurrentDepth |-> Depth,
     bSubdivided |-> FALSE, Children |-> <<>>]

\* Boundary.HalfSize * 0.5f
QuarterSize(n) == Vec(n.Boundary.HalfSize.X \div 2, n.Boundary.HalfSize.Y \div 2)

\* The four children Subdivide creates, in the order NW, NE, SW, SE.
NewChildren(n) ==
    LET q == QuarterSize(n)
        c == n.Boundary.Center
        kid(cx, cy) == FQuadtree(FQuadtreeBounds(Vec(cx, cy), q), n.CurrentDepth + 1)
    IN  << kid(c.X - q.X, c.Y + q.Y), kid(c.X + q.X, c.Y + q.Y),
           kid(c.X - q.X, c.Y - q.Y), kid(c.X + q.X, c.Y - q.Y) >>

Answer(ok, node, fault) == [ok |-> ok, node |-> node, fault |-> fault]

RECURSIVE QuadInsert(_, _)
RECURSIVE TryChildren(_, _, _)
RECURSIVE InsertEach(_, _)

\* InsertIntoChildren from child i on: the first child whose Insert returns
\* true takes the point.
TryChildren(n, Point, i) ==
    IF i > 4 THEN Answer(FALSE, n, FALSE)
    ELSE LET r == QuadInsert(n.Children[i], Point)
         IN  IF r.fault THEN Answer(FALSE, [n EXCEPT !.Children[i] = r.node], TRUE)
             ELSE IF r.ok THEN Answer(TRUE, [n EXCEPT !.Children[i] = r.node], FALSE)
             ELSE TryChildren(n, Point, i + 1)

\* InsertIntoChildren.  With null child pointers (a node Subdivide refused
\* to split) NorthWest->Insert dereferences null: TSharedPtr::operator->
\* asserts, and without the assertion Insert reads Boundary through a null
\* this.  Either way the call does not return.
InsertIntoChildren(n, Point) ==
    IF n.Children = <<>> THEN Answer(FALSE, n, TRUE)
    ELSE TryChildren(n, Point, 1)

\* Mutant of InsertEach: Subdivide empties Points without handing the
\* points to the children.
InsertEach_Dropped(n, pts) == n

\* The loop of Subdivide over PointsCopy (the results are not looked at).
InsertEach(n, pts) ==
    IF pts = <<>> THEN n
    ELSE InsertEach(InsertIntoChildren(n, pts[1]).node, Tail(pts))

\* Mutant of Subdivide: the node keeps its own points after handing them to
\* its children.
Subdivide_KeepsPoints(n) ==
    IF n.bSubdivided \/ n.CurrentDepth >= MAX_DEPTH THEN n
    ELSE [InsertEach([n EXCEPT !.Children = NewChildren(n),
                               !.bSubdivided = TRUE,
                               !.Points = <<>>],
                     n.Points) EXCEPT !.Points = n.Points]

Subdivide(n) ==
    IF n.bSubdivided \/ n.CurrentDepth >= MAX_DEPTH THEN n
    ELSE InsertEach([n EXCEPT !.Children = NewChildren(n),
                              !.bSubdivided = TRUE,
                              !.Points = <<>>],
                    n.Points)

\* Mutant of QuadInsert: a full leaf subdivides before the bounds are
\* looked at.
QuadInsert_SubdividesFirst(n, Point) ==
    LET n1 == IF ~n.bSubdivided /\ Len(n.Points) >= MAX_CAPACITY THEN Subdivide(n) ELSE n
    IN  IF ~Contains(n.Boundary, Point.Position) THEN Answer(FALSE, n1, FALSE)
        ELSE IF ~n1.bSubdivided /\ Len(n1.Points) < MAX_CAPACITY
             THEN Answer(TRUE, [n1 EXCEPT !.Points = Append(n1.Points, Point)], FALSE)
             ELSE InsertIntoChildren(n1, Point)

\* FQuadtree::Insert
QuadInsert(n, Point) ==
    IF ~Contains(n.Boundary, Point.Position) THEN Answer(FALSE, n, FALSE)
    ELSE IF ~n.bSubdivided /\ Len(n.Points) < MAX_CAPACITY
         THEN Answer(TRUE, [n EXCEPT !.Points = Append(n.Points, Point)], FALSE)
         ELSE InsertIntoChildren(IF ~n.bSubdivided THEN Subdivide(n) ELSE n, Point)

RECURSIVE Query(_, _)
RECURSIVE QueryChildren(_, _, _)
QueryChildren(n, Range_, i) ==
    IF i > 4 THEN <<>>
    ELSE Query(n.Children[i], Range_) \o QueryChildren(n, Range_, i + 1)

\* FQuadtree::Query: the points appended to OutPoints, in order.
Query(n, Range_) ==
    IF ~Intersects(n.Boundary, Range_) THEN <<>>
    ELSE SelectSeq(n.Points, LAMBDA pt : Contains(Range_, pt.Position))
         \o (IF n.bSubdivided THEN QueryChildren(n, Range_, 1) ELSE <<>>)

\* FVector2D::DistSquared
DistSquared(a, b) == (a.X - b.X) * (a.X - b.X) + (a.Y - b.Y) * (a.Y - b.Y)

\* FQuadtree::QueryRadius
QueryRadius(n, Center, Radius) ==
    SelectSeq(Query(n, FQuadtreeBounds(Center, Vec(Radius, Radius))),
              LAMBDA pt : DistSquared(pt.Position, Center) <= Radius * Radius)

\* Mutant of QuadClear: the points go, the children stay.
QuadClear_KeepsChildren(n) == [n EXCEPT !.Points = <<>>]

\* FQuadtree::Clear
QuadClear(n) == [n EXCEPT !.Points = <<>>, !.Children = <<>>, !.bSubdivided = FALSE]

RECURSIVE GetSize(_)
RECURSIVE SizeOfChildren(_, _)
SizeOfChildren(n, i) ==
    IF i > 4 THEN 0 ELSE GetSize(n.Children[i]) + SizeOfChildren(n, i + 1)

\* FQuadtree::GetSize
GetSize(n) == Len(n.Points) + (IF n.bSubdivided THEN SizeOfChildren(n, 1) ELSE 0)

\* The nodes of a tree, as the set of the node records.
RECURSIVE Nodes(_)
Nodes(n) == {n} \cup UNION {Nodes(n.Children[i]) : i \in DOMAIN n.Children}

\* World units of the tree of SpecQT: 1 world unit is 64 model units.
W(x) == 64 * x

\* The tree of SpecQT: centred at the origin, half extent 100 x 100.
QTRootBounds == FQuadtreeBounds(Vec(0, 0), Vec(W(100), W(100)))

\* Positions inserted by SpecQT: the centre (shared by the four quadrants),
\* three points near it and a point outside the root.
QTPositions ==
    { Vec(0, 0), Vec(W(10), -W(10)), Vec(-W(10), W(10)), Vec(W(150), 0) }

\* Query rectangles of SpecQT.
QTRanges ==
    { QTRootBounds,
      FQuadtreeBounds(Vec(0, 0), Vec(W(10), W(10))),
      FQuadtreeBounds(Vec(-W(5), -W(5)), Vec(W(5), W(5))) }

NoPoints == [ok |-> FALSE, Points |-> <<>>]

QTStart(bounds) ==
    /\ qt = FQuadtree(bounds, 0)
    /\ qtFault = FALSE
    /\ qtOut = NoPoints
    /\ qtLast = [op |-> "init", arg |-> 0]
    /\ qtStored = {}
    /\ qtCalls = 0

\* Insert of a point at pos; its Data is fresh (the number of the call).
QTInsert(pos) ==
    /\ ~qtFault
    /\ qtCalls < MaxInserts
    /\ LET Point == FQuadtreePoint(pos, qtCalls + 1)
           r == QuadInsert(qt, Point)
       IN  /\ qt' = r.node
           /\ qtFault' = r.fault
           /\ qtOut' = [ok |-> r.ok, Points |-> <<>>]
           /\ qtLast' = [op |-> "Insert", arg |-> Point]
           /\ qtStored' = IF r.ok THEN qtStored \cup {Point} ELSE qtStored
           /\ qtCalls' = qtCalls + 1
    /\ UNCHANGED QTOthers

QTQuery(Range_) ==
    /\ ~qtFault
    /\ qtOut' = [ok |-> TRUE, Points |-> Query(qt, Range_)]
    /\ qtLast' = [op |-> "Query", arg |-> Range_]
    /\ UNCHANGED <<qt, qtFault, qtStored, qtCalls>>
    /\ UNCHANGED QTOthers

QTClear ==
    /\ ~qtFault
    /\ qt' = QuadClear(qt)
    /\ qtOut' = NoPoints
    /\ qtLast' = [op |-> "Clear", arg |-> 0]
    /\ qtStored' = {}
    /\ qtCalls' = 0
    /\ UNCHANGED qtFault
    /\ UNCHANGED QTOthers

QTNext ==
    \/ \E pos \in QTPositions : QTInsert(pos)
    \/ \E r \in QTRanges : QTQuery(r)
    \/ QTClear

\* A position lies inside a rectangle, its edges included.
InsideRange(r, pos) ==
    /\ r.Center.X - r.HalfSize.X <= pos.X /\ pos.X <= r.Center.X + r.HalfSize.X
    /\ r.Center.Y - r.HalfSize.Y <= pos.Y /\ pos.Y <= r.Center.Y + r.HalfSize.Y

NoDuplicates(seq) == \A i, j \in DOMAIN seq : i # j => seq[i] # seq[j]

\* The leaf an Insert of pos arrives at: at every subdivided node the first
\* child, in the order NW, NE, SW, SE, whose bounds contain pos.
RECURSIVE LeafFor(_, _)
LeafFor(n, pos) ==
    IF ~n.bSubdivided THEN n
    ELSE LET fits == {i \in 1..4 : InsideRange(n.Children[i].Boundary, pos)}
         IN  IF fits = {} THEN n
             ELSE LeafFor(n.Children[CHOOSE i \in fits : \A j \in fits : i <= j], pos)

(* C3: starting from an empty quadtree, GetSize() equals the number of      *)
(* Insert calls that returned true; an Insert of a point outside the root   *)
(* bounds returns false and is not counted.                                 *)
C3_SizeCountsInserts ==
    /\ GetSize(qt) = Cardinality(qtStored)
    /\ (qtLast.op = "Insert" /\ ~InsideRange(qt.Boundary, qtLast.arg.Position))
           => (~qtOut.ok /\ qtLast.arg \notin qtStored)

\* Six Insert calls, the last one outside the root, on a tree whose root
\* has subdivided.
C3_Witness ==
    /\ qtCalls = 6 /\ Cardinality(qtStored) = 5 /\ ~qtFault
    /\ qtLast.op = "Insert" /\ ~qtOut.ok
    /\ qt.bSubdivided

(* C5: Query(range) returns exactly the stored points inside the range,     *)
(* edges included, each of them once: none is missed by the pruning of      *)
(* nodes, none outside the range is returned, none is returned twice.       *)
C5_QueryExact ==
    qtLast.op = "Query" =>
        /\ NoDuplicates(qtOut.Points)
        /\ Range(qtOut.Points) = {pt \in qtStored : InsideRange(qtLast.arg, pt.Position)}

\* A query over a subdivided tree returns the point at the centre, which
\* lies on the edges of all four quadrants, and leaves a stored point out.
C5_Witness ==
    /\ qtLast.op = "Query" /\ qt.bSubdivided
    /\ \E pt \in Range(qtOut.Points) : pt.Position = Vec(0, 0)
    /\ Range(qtOut.Points) # qtStored

(* C9: when the leaf an Insert arrives at is at depth MAX_DEPTH and already *)
(* holds MAX_CAPACITY points, the Insert returns true and stores the point  *)
(* in that leaf, without subdividing it and without faulting.               *)
C9_DeepLeafAccumulates ==
    LET leaf == LeafFor(qt, qtLast.arg.Position)
        others == {i \in DOMAIN leaf.Points : leaf.Points[i] # qtLast.arg}
    IN  ( /\ qtLast.op = "Insert"
          /\ InsideRange(qt.Boundary, qtLast.arg.Position)
          /\ leaf.CurrentDepth = MAX_DEPTH
          /\ Cardinality(others) >= MAX_CAPACITY )
        => ( /\ qtOut.ok /\ ~qtFault
             /\ qtLast.arg \in Range(leaf.Points)
             /\ ~leaf.bSubdivided )

\* The edges of a rectangle.
Lo(b) == Vec(b.Center.X - b.HalfSize.X, b.Center.Y - b.HalfSize.Y)
Hi(b) == Vec(b.Center.X + b.HalfSize.X, b.Center.Y + b.HalfSize.Y)

\* Two rectangles share more than edges.
Overlap(a, b) ==
    /\ Lo(a).X < Hi(b).X /\ Lo(b).X < Hi(a).X
    /\ Lo(a).Y < Hi(b).Y /\ Lo(b).Y < Hi(a).Y

Area(b) == (Hi(b).X - Lo(b).X) * (Hi(b).Y - Lo(b).Y)

\* The four children's bounds lie inside the parent's, do not overlap each
\* other and cover the parent's region.
Quartered(n) ==
    /\ \A i \in 1..4 :
          /\ Lo(n.Boundary).X <= Lo(n.Children[i].Boundary).X
          /\ Lo(n.Boundary).Y <= Lo(n.Children[i].Boundary).Y
          /\ Hi(n.Children[i].Boundary).X <= Hi(n.Boundary).X
          /\ Hi(n.Children[i].Boundary).Y <= Hi(n.Boundary).Y
          /\ 4 * Area(n.Children[i].Boundary) = Area(n.Boundary)
    /\ \A i, j \in 1..4 :
          i # j => ~Overlap(n.Children[i].Boundary, n.Children[j].Boundary)

\* C17: in every quadtree state reachable by Insert and Clear, every node is
\* either a leaf holding at most MAX_CAPACITY points, or subdivided with an
\* empty point list and exactly four children at depth + 1 whose bounds
\* quarter the parent's region without overlap.
C17_NodeShape ==
    \A n \in Nodes(qt) :
        \/ /\ ~n.bSubdivided
           /\ n.Children = <<>>
           /\ Len(n.Points) <= MAX_CAPACITY
        \/ /\ n.bSubdivided
           /\ n.Points = <<>>
           /\ Len(n.Children) = 4
           /\ \A i \in 1..4 : n.Children[i].CurrentDepth = n.CurrentDepth + 1
           /\ Quartered(n)

\* Four points at the centre and one near it: the tree was subdivided five
\* levels deep before the points parted, and the leaf of the four is full.
C17_Witness ==
    /\ ~qtFault /\ qtLast.op = "Insert" /\ qtOut.ok
    /\ \E n \in Nodes(qt) :
          /\ n.CurrentDepth = 5 /\ ~n.bSubdivided /\ Len(n.Points) = MAX_CAPACITY
    /\ \E n \in Nodes(qt) : n.CurrentDepth = 4 /\ n.bSubdivided

\* C19: Insert of a point outside the quadtree's root bounds returns false
\* and leaves the tree unchanged: no point is stored, no node subdivides,
\* and GetSize() and every Query result are the same as before the call.
C19_OutsideInsertRejected ==
    [][ (qtLast'.op = "Insert" /\ ~InsideRange(qt.Boundary, qtLast'.arg.Position)) =>
            /\ ~qtOut'.ok /\ ~qtFault'
            /\ qt' = qt
            /\ GetSize(qt') = GetSize(qt)
            /\ \A r \in QTRanges : Query(qt', r) = Query(qt, r) ]_vars

\* A point outside the root was offered to a root leaf that is full.
C19_Witness ==
    /\ qtLast.op = "Insert" /\ ~InsideRange(qt.Boundary, qtLast.arg.Position)
    /\ ~qtOut.ok /\ ~qt.bSubdivided /\ Len(qt.Points) = MAX_CAPACITY

(***************************************************************************)
(* The quadtree's four-point scenario: the four points, in any order, and  *)
(* then a fifth one inside the bounds.                                     *)
(***************************************************************************)
Scenario1 == { Vec(0, 0), Vec(W(10), W(10)), Vec(W(10), -W(10)), Vec(-W(10), W(10)) }

\* The fifth point: on a stored point, on the root's corner, on its edge, or
\* elsewhere inside.
Scenario1Fifth == { Vec(0, 0), Vec(-W(100), -W(100)), Vec(W(100), 0), Vec(W(50), W(50)) }

StoredPositions == { pt.Position : pt \in qtStored }

\* The next Insert of the scenario.
QT1Insert(pos) ==
    /\ \/ qtCalls < 4 /\ pos \in Scenario1 \ StoredPositions
       \/ qtCalls = 4 /\ pos \in Scenario1Fifth
    /\ QTInsert(pos)

QT1Next ==
    \/ \E pos \in Scenario1 \cup Scenario1Fifth : QT1Insert(pos)
    \/ \E Range_ \in QTRanges : QTQuery(Range_)
    \/ QTClear

\* C13: in a quadtree centred at the origin with half-extent 100x100, after
\* the inserts of (0,0), (10,10), (10,-10), (-10,10) the root is not
\* subdivided and holds the four points; a fifth in-bounds insert makes the
\* root subdivide, and a Query over the full bounds then returns all five.
C13_FourThenSubdivide ==
    /\ (qtCalls = 4 /\ StoredPositions = Scenario1) =>
           /\ ~qt.bSubdivided
           /\ Range(qt.Points) = qtStored /\ Len(qt.Points) = 4
    /\ qtCalls = 5 =>
           /\ ~qtFault
           /\ qt.bSubdivided /\ qt.Points = <<>>
           /\ Cardinality(qtStored) = 5
           /\ (qtLast.op = "Query" /\ qtLast.arg = QTRootBounds) =>
                  (Range(qtOut.Points) = qtStored /\ Len(qtOut.Points) = 5)

\* The fifth point went in at the root's corner and the full query ran.
C13_Witness ==
    /\ qtCalls = 5 /\ qtLast.op = "Query" /\ qtLast.arg = QTRootBounds
    /\ Len(qtOut.Points) = 5
    /\ \E pt \in qtStored : pt.Position = Vec(-W(100), -W(100)) /\ pt.Data = 5

(***************************************************************************)
(* AEnemyDirectorEnhanced: the spatial index over the enemy list           *)
(*                                                                         *)
(* An enemy actor is its index in PEnemies (0 is the null pointer).  One   *)
(* unit of length is 5000/512 world units, so that the arena's half size   *)
(* of 5000 is 512 and its eight halvings are integers.  The timing fields  *)
(* (QuadtreeQueryTime, SearchTime) are wall-clock measurements and are not *)
(* part of the state.                                                      *)
(***************************************************************************)
NumEnemies == 5
MaxQueries == 2

ArenaHalf == 512

\* BeginPlay: FQuadtreeBounds(ArenaCenter, ArenaHalfSize)
ArenaBounds == FQuadtreeBounds(Vec(0, 0), Vec(ArenaHalf, ArenaHalf))

\* Where the enemy actors stand when the level begins.
StartLocations ==
    << Vec(0, 0), Vec(30, 40), Vec(-200, 300), Vec(100, -100), Vec(-50, -60) >>

StartLocation(i) == StartLocations[((i - 1) % Len(StartLocations)) + 1]

\* Where an enemy may move: in the arena, or past its edge.
DirLocations == { Vec(0, 0), Vec(30, 40), Vec(-200, 300), Vec(600, 0) }

\* The enemies that move.
DirMovers == {1}

\* Centres and radii of the radius queries.
DirCentres == { Vec(0, 0), Vec(600, 0) }
DirRadii == {50, 400}

AEnemy(loc, inArena) == [Location |-> loc, BInArena |-> inArena]

NoResult == [Result |-> <<>>]

\* A director call without a centre and a radius.
DirCall(op) == [op |-> op, Center |-> Vec(0, 0), Radius |-> 0]

\* After BeginPlay: the enemies of the level, all pooled, and an empty index.
DirStart ==
    /\ PEnemies = [i \in 1..NumEnemies |-> AEnemy(StartLocation(i), FALSE)]
    /\ SpatialPartition = FQuadtree(ArenaBounds, 0)
    /\ TotalQueries = 0
    /\ dirFault = FALSE
    /\ dirOut = NoResult
    /\ dirLast = DirCall("BeginPlay")
    /\ dirFresh = FALSE

\* The loop of UpdateSpatialPartition over PEnemies[i..]: Insert of every
\* enemy in the arena, the value Insert returns being ignored.
RECURSIVE InsertActive(_, _, _)
InsertActive(n, enemies, i) ==
    IF i > Len(enemies) THEN Answer(TRUE, n, FALSE)
    ELSE IF ~enemies[i].BInArena THEN InsertActive(n, enemies, i + 1)
    ELSE LET r == QuadInsert(n, FQuadtreePoint(enemies[i].Location, i))
         IN  IF r.fault THEN r ELSE InsertActive(r.node, enemies, i + 1)

\* AEnemyDirectorEnhanced::UpdateSpatialPartition
UpdateSpatialPartition(n, enemies) == InsertActive(QuadClear(n), enemies, 1)

\* AEnemyDirectorEnhanced::FindEnemiesInRadius: the actors of the points
\* QueryRadius returns, null Data skipped.
FindEnemiesInRadius(n, Center, Radius) ==
    LET Points == QueryRadius(n, Center, Radius)
        WithData == SelectSeq(Points, LAMBDA pt : pt.Data # 0)
    IN  [k \in 1..Len(WithData) |-> WithData[k].Data]

\* The engine moves an enemy actor.
DirEnemyMoves(i, loc) ==
    /\ ~dirFault
    /\ PEnemies[i].Location # loc
    /\ PEnemies' = [PEnemies EXCEPT ![i].Location = loc]
    /\ dirFresh' = FALSE
    /\ dirLast' = DirCall("Move")
    /\ dirOut' = NoResult
    /\ UNCHANGED <<SpatialPartition, TotalQueries, dirFault>>
    /\ UNCHANGED DirOthers

\* An enemy enters the arena (spawn) or returns to the pool (death).
DirSetInArena(i) ==
    /\ ~dirFault
    /\ PEnemies' = [PEnemies EXCEPT ![i].BInArena = ~PEnemies[i].BInArena]
    /\ dirFresh' = FALSE
    /\ dirLast' = DirCall("SetInArena")
    /\ dirOut' = NoResult
    /\ UNCHANGED <<SpatialPartition, TotalQueries, dirFault>>
    /\ UNCHANGED DirOthers

DirUpdateSpatialPartition ==
    /\ ~dirFault
    /\ LET r == UpdateSpatialPartition(SpatialPartition, PEnemies)
       IN  /\ SpatialPartition' = r.node
           /\ dirFault' = r.fault
    /\ dirFresh' = TRUE
    /\ dirLast' = DirCall("UpdateSpatialPartition")
    /\ dirOut' = NoResult
    /\ UNCHANGED <<PEnemies, TotalQueries>>
    /\ UNCHANGED DirOthers

DirFindEnemiesInRadius(Center, Radius) ==
    /\ ~dirFault
    /\ TotalQueries < MaxQueries
    /\ dirOut' = [Result |-> FindEnemiesInRadius(SpatialPartition, Center, Radius)]
    /\ TotalQueries' = TotalQueries + 1
    /\ dirLast' = [op |-> "FindEnemiesInRadius", Center |-> Center, Radius |-> Radius]
    /\ UNCHANGED <<PEnemies, SpatialPartition, dirFault, dirFresh>>
    /\ UNCHANGED DirOthers

DirNext ==
    \/ \E i \in DirMovers, loc \in DirLocations : DirEnemyMoves(i, loc)
    \/ \E i \in 1..NumEnemies : DirSetInArena(i)
    \/ DirUpdateSpatialPartition
    \/ \E c \in DirCentres, r \in DirRadii : DirFindEnemiesInRadius(c, r)

\* The enemies in the arena within Radius of Center (2-D distance).
ActiveInRadius(Center, Radius) ==
    { i \in 1..NumEnemies :
        /\ PEnemies[i].BInArena
        /\ DistSquared(PEnemies[i].Location, Center) <= Radius * Radius }

\* C4: after an index rebuild, FindEnemiesInRadius returns only enemies
\* within the radius of the centre, and every enemy in the arena within the
\* radius of the centre.
C4_RadiusQueryExact ==
    (dirLast.op = "FindEnemiesInRadius" /\ dirFresh)
        => Range(dirOut.Result) = ActiveInRadius(dirLast.Center, dirLast.Radius)

(***************************************************************************)
(* SortingAlgorithms: QuickSort and MergeSort                              *)
(*                                                                         *)
(* Arrays are 1-based here (index k of the source is k + 1).  An element   *)
(* is a key, which the comparator reads, and a tag, which it does not.     *)
(***************************************************************************)
MaxSortLen == 4
MaxSortKey == 3

SortTags == {1, 2}
SortElems == [Key : 1..MaxSortKey, Tag : SortTags]

\* The comparators: A < B (the default overloads) and A > B (descending, as
\* in GetSortedEnemiesByThreat).
SortPredicates == {"Less", "Greater"}

Predicate(P, A, B) == IF P = "Less" THEN A.Key < B.Key ELSE A.Key > B.Key

SortInputs == UNION { [1..n -> SortElems] : n \in 0..MaxSortLen }

SwapAt(arr, a, b) == [arr EXCEPT ![a] = arr[b], ![b] = arr[a]]

\* The loop of Partition from index j on: [Array, i].
RECURSIVE PartitionLoop(_, _, _, _, _, _)
PartitionLoop(arr, i, j, High, Pivot, P) ==
    IF j >= High THEN [Array |-> arr, i |-> i]
    ELSE IF Predicate(P, arr[j], Pivot)
         THEN PartitionLoop(SwapAt(arr, i + 1, j), i + 1, j + 1, High, Pivot, P)
         ELSE PartitionLoop(arr, i, j + 1, High, Pivot, P)

\* A Partition whose scan starts at the second element of the range.
Partition_SkipFirst(arr, Low, High, P) ==
    LET l == PartitionLoop(arr, Low - 1, Low + 1, High, arr[High], P)
    IN  [Array |-> SwapAt(l.Array, l.i + 1, High), Index |-> l.i + 1]

\* SortingAlgorithms::Partition: the array after it and the index returned.
Partition(arr, Low, High, P) ==
    LET l == PartitionLoop(arr, Low - 1, Low, High, arr[High], P)
    IN  [Array |-> SwapAt(l.Array, l.i + 1, High), Index |-> l.i + 1]

RECURSIVE QuickSortRecursive(_, _, _, _)
QuickSortRecursive(arr, Low, High, P) ==
    IF Low < High
    THEN LET pt == Partition(arr, Low, High, P)
             lower == QuickSortRecursive(pt.Array, Low, pt.Index - 1, P)
         IN  QuickSortRecursive(lower, pt.Index + 1, High, P)
    ELSE arr

QuickSort(arr, P) ==
    IF Len(arr) > 1 THEN QuickSortRecursive(arr, 1, Len(arr), P) ELSE arr

\* The three loops of Merge: the elements written to Array[Left..Right].
RECURSIVE MergeLoop(_, _, _)
MergeLoop(LeftArray, RightArray, P) ==
    IF LeftArray = <<>> THEN RightArray
    ELSE IF RightArray = <<>> THEN LeftArray
    ELSE IF Predicate(P, Head(LeftArray), Head(RightArray))
         THEN <<Head(LeftArray)>> \o MergeLoop(Tail(LeftArray), RightArray, P)
         ELSE <<Head(RightArray)>> \o MergeLoop(LeftArray, Tail(RightArray), P)

\* SortingAlgorithms::Merge
Merge(arr, Left, Mid, Right, P) ==
    LET LeftArray == SubSeq(arr, Left, Mid)
        RightArray == SubSeq(arr, Mid + 1, Right)
    IN  SubSeq(arr, 1, Left - 1) \o MergeLoop(LeftArray, RightArray, P)
            \o SubSeq(arr, Right + 1, Len(arr))

RECURSIVE MergeSortRecursive(_, _, _, _)
MergeSortRecursive(arr, Left, Right, P) ==
    IF Left < Right
    THEN LET Mid == Left + CDiv(Right - Left, 2)
             lower == MergeSortRecursive(arr, Left, Mid, P)
             upper == MergeSortRecursive(lower, Mid + 1, Right, P)
         IN  Merge(upper, Left, Mid, Right, P)
    ELSE arr

MergeSort(arr, P) ==
    IF Len(arr) > 1 THEN MergeSortRecursive(arr, 1, Len(arr), P) ELSE arr

NotSorted == [done |-> FALSE, Array |-> <<>>]

SortStart(arr, P) ==
    /\ sortInput = arr
    /\ sortPredicate = P
    /\ sortQuick = NotSorted
    /\ sortMerge = NotSorted

\* QuickSort(Array, Predicate) on a copy of the input.
SortQuickSort ==
    /\ ~sortQuick.done
    /\ sortQuick' = [done |-> TRUE, Array |-> QuickSort(sortInput, sortPredicate)]
    /\ UNCHANGED <<sortInput, sortPredicate, sortMerge>>
    /\ UNCHANGED SortOthers

\* MergeSort(Array, Predicate) on a copy of the input.
SortMergeSort ==
    /\ ~sortMerge.done
    /\ sortMerge' = [done |-> TRUE, Array |-> MergeSort(sortInput, sortPredicate)]
    /\ UNCHANGED <<sortInput, sortPredicate, sortQuick>>
    /\ UNCHANGED SortOthers

SortNext == SortQuickSort \/ SortMergeSort

\* No element is ahead of one the comparator puts before it.
Ordered(arr, P) ==
    \A a, b \in 1..Len(arr) : a < b => ~Predicate(P, arr[b], arr[a])

Occurrences(arr, e) == Cardinality({k \in 1..Len(arr) : arr[k] = e})

SameMultiset(a, b) ==
    /\ Len(a) = Len(b)
    /\ \A e \in SortElems : Occurrences(a, e) = Occurrences(b, e)

Equivalent(P, A, B) == ~Predicate(P, A, B) /\ ~Predicate(P, B, A)

\* C8: QuickSort and MergeSort each leave the array ordered under the
\* comparator and keep its multiset of elements, and their outputs differ
\* at most by a permutation among elements that compare equivalent.
C8_SortsAgree ==
    /\ sortQuick.done =>
           /\ Ordered(sortQuick.Array, sortPredicate)
           /\ SameMultiset(sortQuick.Array, sortInput)
    /\ sortMerge.done =>
           /\ Ordered(sortMerge.Array, sortPredicate)
           /\ SameMultiset(sortMerge.Array, sortInput)
    /\ (sortQuick.done /\ sortMerge.done) =>
           \A k \in 1..Len(sortInput) :
               Equivalent(sortPredicate, sortQuick.Array[k], sortMerge.Array[k])

\* Both sorts ran on four elements with ties and an inversion, and they
\* ordered the tied elements differently.
C8_Witness ==
    /\ sortQuick.done /\ sortMerge.done
    /\ Len(sortInput) = MaxSortLen
    /\ ~Ordered(sortInput, sortPredicate)
    /\ sortQuick.Array # sortMerge.Array
    /\ sortPredicate = "Greater"

\* The elements of arr that compare equivalent to e, in their order in arr.
EquivalentTo(arr, P, e) ==
    LET Same(x) == Equivalent(P, x, e) IN SelectSeq(arr, Same)

\* C15: MergeSort is stable: elements that compare equivalent appear in the
\* output in the same relative order as in the input, for every input array
\* and comparator (the default A < B included).
C15_MergeSortStable ==
    sortMerge.done =>
        \A e \in SortElems :
            EquivalentTo(sortMerge.Array, sortPredicate, e)
                = EquivalentTo(sortInput, sortPredicate, e)

(***************************************************************************)
(* FAStarPathfinding::FindPath                                             *)
(*                                                                         *)
(* Positions are in world units with Z = 0 (the eight directions keep Z).  *)
(* A cost is a whole number of world units: FVector::Dist is rounded down. *)
(* The nodes of a graph have distinct positions.                           *)
(***************************************************************************)
GridSize == 100
GridW == 4

Abs(x) == IF x < 0 THEN -x ELSE x

\* FVector::Equals(Other, Tolerance)
VecEquals(a, b, Tolerance) ==
    Abs(a.X - b.X) <= Tolerance /\ Abs(a.Y - b.Y) <= Tolerance

MinOf(S) == CHOOSE x \in S : \A y \in S : x <= y
MaxOf(S) == CHOOSE x \in S : \A y \in S : x >= y

\* Bounds of the square root of p * p + q * q for p >= q >= 0:
\* max(p, 0.7 (p + q)) <= root <= p + (5/12) q + 1.
RootLow(p, q) == IF 10 * p >= 7 * (p + q) THEN p ELSE (7 * (p + q)) \div 10
RootHigh(p, q) == p + ((5 * q) \div 12) + 1

\* The square root of p * p + q * q, rounded down, for p >= q >= 0.
Root(p, q) ==
    CHOOSE r \in RootLow(p, q)..RootHigh(p, q) :
        r * r <= p * p + q * q /\ p * p + q * q < (r + 1) * (r + 1)

\* FVector::Dist, rounded down.
Dist(a, b) ==
    IF Abs(a.X - b.X) >= Abs(a.Y - b.Y)
    THEN Root(Abs(a.X - b.X), Abs(a.Y - b.Y))
    ELSE Root(Abs(a.Y - b.Y), Abs(a.X - b.X))

\* FAStarNode::FAStarNode(InPosition), with its bIsWalkable flag set
FAStarNode(InPosition, walkable) ==
    [Position |-> InPosition, GCost |-> 0, HCost |-> 0, FCost |-> 0,
     Parent |-> 0, bIsWalkable |-> walkable]

\* A heuristic that overestimates: three times the straight-line distance.
CalculateHeuristic_Tripled(Start, End) == 3 * Dist(Start, End)

\* FAStarPathfinding::CalculateHeuristic (bUseEuclidean = true)
CalculateHeuristic(Start, End) == Dist(Start, End)

\* Only the four axis directions.
Directions_Axes ==
    << Vec(GridSize, 0), Vec(-GridSize, 0), Vec(0, GridSize), Vec(0, -GridSize) >>

\* GetNeighbors: "Define 8 directions"
Directions ==
    << Vec(GridSize, 0), Vec(-GridSize, 0), Vec(0, GridSize), Vec(0, -GridSize),
       Vec(GridSize, GridSize), Vec(-GridSize, GridSize),
       Vec(GridSize, -GridSize), Vec(-GridSize, -GridSize) >>

\* The first node at a position whether walkable or not.
FirstWalkableAt_AnyNode(nodes, pos) ==
    LET hits == {i \in 1..Len(nodes) : VecEquals(nodes[i].Position, pos, 1)}
    IN  IF hits = {} THEN 0 ELSE MinOf(hits)

\* The inner loop of GetNeighbors: the first walkable node at a position.
FirstWalkableAt(nodes, pos) ==
    LET hits == {i \in 1..Len(nodes) :
                    VecEquals(nodes[i].Position, pos, 1) /\ nodes[i].bIsWalkable}
    IN  IF hits = {} THEN 0 ELSE MinOf(hits)

\* FAStarPathfinding::GetNeighbors: the nodes added, in the order added.
GetNeighbors(nodes, Current) ==
    LET at(d) == FirstWalkableAt(nodes,
                     Vec(nodes[Current].Position.X + Directions[d].X,
                         nodes[Current].Position.Y + Directions[d].Y))
    IN  SelectSeq([d \in 1..Len(Directions) |-> at(d)], LAMBDA n : n # 0)

\* A path from the end node back to the start node.
RECURSIVE ReconstructPath_Reversed(_, _)
ReconstructPath_Reversed(nodes, Current) ==
    IF Current = 0 THEN <<>>
    ELSE <<nodes[Current].Position>>
             \o ReconstructPath_Reversed(nodes, nodes[Current].Parent)

\* FAStarPathfinding::ReconstructPath
RECURSIVE ReconstructPath(_, _)
ReconstructPath(nodes, Current) ==
    IF Current = 0 THEN <<>>
    ELSE ReconstructPath(nodes, nodes[Current].Parent)
             \o <<nodes[Current].Position>>

\* The first loop of FindPath: the last node at a position, or null.
LastAt(nodes, pos) ==
    LET hits == {i \in 1..Len(nodes) : VecEquals(nodes[i].Position, pos, 1)}
    IN  IF hits = {} THEN 0 ELSE MaxOf(hits)

\* The first loop of FindPath: "Reset node data".
ResetNode(n) == [n EXCEPT !.GCost = 0, !.HCost = 0, !.FCost = 0, !.Parent = 0]

\* The body of FindPath's loop over Neighbors for one Neighbor: the nodes
\* and the open list after it.
Relax(nodes, open, closed, Current, EndN, Neighbor) ==
    IF Neighbor \in Range(closed) THEN [nodes |-> nodes, open |-> open]
    ELSE LET TentativeGCost == nodes[Current].GCost
                 + Dist(nodes[Current].Position, nodes[Neighbor].Position)
             bInOpenList == PQContains(open, Neighbor)
             HCost == CalculateHeuristic(nodes[Neighbor].Position, nodes[EndN].Position)
             FCost == TentativeGCost + HCost
         IN  IF ~bInOpenList \/ TentativeGCost < nodes[Neighbor].GCost
             THEN [nodes |-> [nodes EXCEPT ![Neighbor].Parent = Current,
                                           ![Neighbor].GCost = TentativeGCost,
                                           ![Neighbor].HCost = HCost,
                                           ![Neighbor].FCost = FCost],
                   open |-> IF ~bInOpenList
                            THEN Enqueue(open, Neighbor, FCost)
                            ELSE UpdatePriority(open, Neighbor, FCost).heap]
             ELSE [nodes |-> nodes, open |-> open]

\* The cell (x, y) of the grid and the position of the i-th node.
Cell(x, y) == Vec(GridSize * x, GridSize * y)
CellOf(i) == Cell((i - 1) % GridW, (i - 1) \div GridW)

\* The cells that may be unwalkable, and the start and end positions asked
\* for (one start is off the grid).
WallCells == { Cell(1, 1), Cell(2, 1), Cell(2, 2), Cell(2, 3), Cell(3, 2) }
AStarStarts == { Cell(0, 0), Cell(1, 1), Cell(-1, 0) }
AStarGoals == { Cell(3, 3), Cell(2, 2), Cell(0, 0) }

\* A caller about to call FindPath(s, e, nodes, OutPath).
AStarStartOn(nodes, s, e) ==
    /\ AllNodes = nodes
    /\ StartPos = s
    /\ EndPos = e
    /\ StartNode = 0
    /\ EndNode = 0
    /\ OpenList = <<>>
    /\ ClosedList = <<>>
    /\ CurrentNode = 0
    /\ Neighbors = <<>>
    /\ OutPath = <<>>
    /\ asPC = "call"
    /\ asResult = FALSE

\* A caller about to call FindPath(s, e, AllNodes, OutPath) on fresh nodes.
AStarStart(walls, s, e) ==
    AStarStartOn([i \in 1..(GridW * GridW) |-> FAStarNode(CellOf(i), CellOf(i) \notin walls)],
                 s, e)

\* FindPath up to its loop: find the start and end nodes, reset every node,
\* return false if one is missing, else enqueue the start node.
AStarBegin ==
    /\ asPC = "call"
    /\ \E sn \in {LastAt(AllNodes, StartPos)}, en \in {LastAt(AllNodes, EndPos)} :
         \E nodes \in {[i \in 1..Len(AllNodes) |-> ResetNode(AllNodes[i])]} :
           /\ StartNode' = sn
           /\ EndNode' = en
           /\ IF sn = 0 \/ en = 0
              THEN /\ AllNodes' = nodes
                   /\ asPC' = "done"
                   /\ asResult' = FALSE
                   /\ UNCHANGED OpenList
              ELSE \E h \in {CalculateHeuristic(nodes[sn].Position, nodes[en].Position)} :
                       /\ AllNodes' = [nodes EXCEPT ![sn].HCost = h, ![sn].FCost = h]
                       /\ OpenList' = Enqueue(<<>>, sn, h)
                       /\ asPC' = "loop"
                       /\ UNCHANGED asResult
    /\ UNCHANGED <<StartPos, EndPos, ClosedList, CurrentNode, Neighbors, OutPath>>
    /\ UNCHANGED AStarOthers

\* The while test passes: dequeue the node of lowest F cost, close it,
\* return true with the path if it is the end node, else get its neighbors.
AStarIterate ==
    /\ asPC = "loop"
    /\ Len(OpenList) # 0
    /\ \E d \in {Dequeue(OpenList)} :
           IF VecEquals(AllNodes[d.Element].Position, AllNodes[EndNode].Position, 1)
           THEN /\ OutPath' = ReconstructPath(AllNodes, d.Element)
                /\ asPC' = "done"
                /\ asResult' = TRUE
                /\ OpenList' = <<>>
                /\ ClosedList' = <<>>
                /\ CurrentNode' = 0
                /\ Neighbors' = <<>>
           ELSE /\ OpenList' = d.heap
                /\ ClosedList' = Append(ClosedList, d.Element)
                /\ CurrentNode' = d.Element
                /\ Neighbors' = GetNeighbors(AllNodes, d.Element)
                /\ asPC' = IF GetNeighbors(AllNodes, d.Element) = <<>>
                           THEN "loop" ELSE "neighbors"
                /\ UNCHANGED <<OutPath, asResult>>
    /\ UNCHANGED <<AllNodes, StartPos, EndPos, StartNode, EndNode>>
    /\ UNCHANGED AStarOthers

\* One pass of "for (FAStarNode* Neighbor : Neighbors)"; after the last
\* neighbor, back to the while test.
AStarRelax ==
    /\ asPC = "neighbors"
    /\ \E r \in {Relax(AllNodes, OpenList, ClosedList, CurrentNode, EndNode,
                        Head(Neighbors))} :
           /\ AllNodes' = r.nodes
           /\ OpenList' = r.open
    /\ Neighbors' = Tail(Neighbors)
    /\ asPC' = IF Len(Neighbors) = 1 THEN "loop" ELSE "neighbors"
    /\ UNCHANGED <<StartPos, EndPos, StartNode, EndNode, ClosedList, CurrentNode,
                   OutPath, asResult>>
    /\ UNCHANGED AStarOthers

\* The open list is empty: "No path found".
AStarNoPath ==
    /\ asPC = "loop"
    /\ Len(OpenList) = 0
    /\ asPC' = "done"
    /\ asResult' = FALSE
    /\ ClosedList' = <<>>
    /\ CurrentNode' = 0
    /\ UNCHANGED <<AllNodes, StartPos, EndPos, StartNode, EndNode, OpenList,
                   Neighbors, OutPath>>
    /\ UNCHANGED AStarOthers

\* The caller calls FindPath again on the same nodes, with an empty OutPath.
AStarCallAgain(s, e) ==
    /\ asPC = "done"
    /\ StartPos' = s
    /\ EndPos' = e
    /\ OutPath' = <<>>
    /\ asPC' = "call"
    /\ UNCHANGED <<AllNodes, StartNode, EndNode, OpenList, ClosedList, CurrentNode,
                   Neighbors, asResult>>
    /\ UNCHANGED AStarOthers

AStarNext ==
    \/ AStarBegin
    \/ AStarIterate
    \/ AStarRelax
    \/ AStarNoPath
    \/ \E s \in AStarStarts, e \in AStarGoals : AStarCallAgain(s, e)

\* Two positions one grid step apart, along an axis or a diagonal.
GridAdjacent(a, b) ==
    /\ a # b
    /\ Abs(a.X - b.X) \in {0, GridSize}
    /\ Abs(a.Y - b.Y) \in {0, GridSize}

WalkableAt(pos) ==
    \E i \in 1..Len(AllNodes) : AllNodes[i].Position = pos /\ AllNodes[i].bIsWalkable

\* C6: when FindPath returns true, OutPath runs from the start node's
\* position to the goal node's position, consecutive waypoints are
\* 8-grid-adjacent at GridSize spacing, every waypoint after the first is
\* the position of a walkable node, and no waypoint is repeated.
C6_PathWellFormed ==
    (asPC = "done" /\ asResult) =>
        /\ Len(OutPath) >= 1
        /\ OutPath[1] = AllNodes[StartNode].Position
        /\ OutPath[Len(OutPath)] = AllNodes[EndNode].Position
        /\ \A k \in 1..(Len(OutPath) - 1) : GridAdjacent(OutPath[k], OutPath[k + 1])
        /\ \A k \in 2..Len(OutPath) : WalkableAt(OutPath[k])
        /\ \A j, k \in 1..Len(OutPath) : j # k => OutPath[j] # OutPath[k]

\* A path found around unwalkable cells: more waypoints than the widest
\* straight run of the grid.
C6_Witness ==
    /\ asPC = "done" /\ asResult
    /\ Len(OutPath) > GridW
    /\ \E i \in 1..Len(AllNodes) : ~AllNodes[i].bIsWalkable

\* The nodes to which a chain of grid-adjacent nodes, walkable after its
\* first, leads from a node of S.
RECURSIVE ReachFrom(_)
ReachFrom(S) ==
    LET more == { n \in 1..Len(AllNodes) :
                    /\ AllNodes[n].bIsWalkable
                    /\ \E m \in S : GridAdjacent(AllNodes[m].Position, AllNodes[n].Position) }
    IN  IF more \subseteq S THEN S ELSE ReachFrom(S \cup more)

\* C7: when the start and goal nodes exist, FindPath returns, and it returns
\* true exactly when the goal is reachable from the start through walkable
\* 8-adjacent nodes.
C7_TerminatesIffReachable ==
    /\ []( (asPC = "done" /\ StartNode # 0 /\ EndNode # 0)
               => (asResult <=> EndNode \in ReachFrom({StartNode})) )
    /\ ( (asPC = "call") ~> (asPC = "done") )

\* FindPath searched from the start, ran out of open nodes and returned
\* false for a walkable goal.
C7_Witness ==
    /\ asPC = "done" /\ ~asResult
    /\ StartNode # 0 /\ EndNode # 0
    /\ AllNodes[EndNode].bIsWalkable
    /\ \E n \in 1..Len(AllNodes) : AllNodes[n].Parent = StartNode

\* The 3x3 grid of the corner-to-corner scenario: nine nodes, row by row.
Grid3(walls) ==
    [i \in 1..9 |-> FAStarNode(Cell((i - 1) % 3, (i - 1) \div 3),
                               Cell((i - 1) % 3, (i - 1) \div 3) \notin walls)]

\* The cells of the 3x3 grid that may be unwalkable: the centre and the two
\* cells beside the start corner.
Grid3Walls == { Cell(1, 1), Cell(1, 0), Cell(0, 1) }

\* One call of FindPath, from the call to the return.
AStar3Next == AStarBegin \/ AStarIterate \/ AStarRelax \/ AStarNoPath

\* The positions of the unwalkable nodes.
Blocked == { AllNodes[i].Position : i \in {n \in 1..Len(AllNodes) : ~AllNodes[n].bIsWalkable} }

\* C11 as stated: on the 3x3 grid with only the centre unwalkable, FindPath
\* from (0,0) to (2,2) returns true with a path of at least 5 waypoints
\* that avoids (1,1).
C11_DetourAtLeastFive ==
    (asPC = "done" /\ Blocked = {Cell(1, 1)}) =>
        /\ asResult
        /\ Len(OutPath) >= 5
        /\ Cell(1, 1) \notin Range(OutPath)

\* What FindPath returns for C11's grid: a path of exactly 4 waypoints (3
\* moves) that steps diagonally past the unwalkable centre.
C11_DetourOfFour ==
    (asPC = "done" /\ Blocked = {Cell(1, 1)}) =>
        /\ asResult
        /\ Len(OutPath) = 4
        /\ Cell(1, 1) \notin Range(OutPath)
        /\ OutPath[1] = Cell(0, 0) /\ OutPath[4] = Cell(2, 2)

\* C12: on the 3x3 grid without obstacles, FindPath from (0,0) to (2,2)
\* returns true with the path of exactly 3 waypoints (0,0), (1,1), (2,2).
C12_DiagonalOfThree ==
    (asPC = "done" /\ Blocked = {}) =>
        /\ asResult
        /\ OutPath = << Cell(0, 0), Cell(1, 1), Cell(2, 2) >>

C12_Witness ==
    /\ asPC = "done" /\ Blocked = {} /\ Len(AllNodes) = 9
    /\ StartPos = Cell(0, 0) /\ EndPos = Cell(2, 2) /\ asResult
    /\ Len(OutPath) = 3

\* The total cost of a path: the sum of the lengths of its steps.
RECURSIVE PathCost(_)
PathCost(path) ==
    IF Len(path) <= 1 THEN 0
    ELSE Dist(path[1], path[2]) + PathCost(Tail(path))

\* One more step allowed: the pairs <<node, cost>> of the least cost of a
\* chain of grid-adjacent nodes, walkable after its first, from the start
\* node to the node.
LeastCostStep(D) ==
    LET further == UNION { { << n, p[2] + Dist(AllNodes[p[1]].Position, AllNodes[n].Position) >> :
                               n \in { x \in 1..Len(AllNodes) :
                                         /\ AllNodes[x].bIsWalkable
                                         /\ GridAdjacent(AllNodes[p[1]].Position,
                                                         AllNodes[x].Position) } } :
                           p \in D }
        all == D \cup further
    IN  { q \in all : \A r \in all : r[1] = q[1] => q[2] <= r[2] }

RECURSIVE LeastCostAfter(_, _)
LeastCostAfter(D, steps) ==
    IF steps = 0 THEN D ELSE LeastCostAfter(LeastCostStep(D), steps - 1)

\* The least total costs of the paths from the start node to the goal node:
\* one cost, or none where no path leads to the goal.
LeastCost ==
    { q[2] : q \in { r \in LeastCostAfter({ << StartNode, 0 >> }, Len(AllNodes)) :
                       r[1] = EndNode } }

\* C28: whenever FindPath succeeds, the path it returns is a shortest one:
\* its total cost (the sum of the Euclidean lengths of its steps) is the
\* least among all paths from the start to the goal that move between
\* walkable 8-adjacent grid nodes.
C28_PathIsShortest ==
    (asPC = "done" /\ asResult) => LeastCost = { PathCost(OutPath) }

\* A path that bends around unwalkable cells was returned: it costs more
\* than the straight line, and it has straight and diagonal steps.
C28_Witness ==
    /\ asPC = "done" /\ asResult
    /\ PathCost(OutPath) > Dist(OutPath[1], OutPath[Len(OutPath)]) + GridSize
    /\ \E k \in 1..(Len(OutPath) - 1) : Dist(OutPath[k], OutPath[k + 1]) = GridSize
    /\ \E k \in 1..(Len(OutPath) - 1) : Dist(OutPath[k], OutPath[k + 1]) > GridSize

(***************************************************************************)
(* CustomStack                                                             *)
(***************************************************************************)
MaxStackCapacity == 2   \* the stack is constructed with a limit in 1..MaxStackCapacity
MaxPushes == 4          \* Push calls explored between two Clear calls

StackElems == {"A", "B", "C"}

\* Scenario 5: push A, B, C, then three pops.
Scenario5 == <<"A", "B", "C", "Pop", "Pop", "Pop">>

StackScriptStep(s, call) ==
    IF s >= 0 /\ s < Len(Scenario5) /\ Scenario5[s + 1] = call THEN s + 1 ELSE -1

\* CustomStack::IsEmpty
StackIsEmpty(d) == Len(d) = 0

\* Mutant of Push: a full stack drops its oldest element to make room.
Push_Evicting(d, cap, Element) ==
    IF cap > 0 /\ Len(d) >= cap
    THEN [ok |-> TRUE, Data |-> Append(Tail(d), Element)]
    ELSE [ok |-> TRUE, Data |-> Append(d, Element)]

\* CustomStack::Push
Push(d, cap, Element) ==
    IF cap > 0 /\ Len(d) >= cap
    THEN [ok |-> FALSE, Data |-> d]
    ELSE [ok |-> TRUE, Data |-> Append(d, Element)]

NoElement == "none"

\* CustomStack::Pop(ElementType&); OutElement is left alone on failure.
Pop(d) ==
    IF StackIsEmpty(d)
    THEN [ok |-> FALSE, Data |-> d, Element |-> NoElement]
    ELSE [ok |-> TRUE, Data |-> SubSeq(d, 1, Len(d) - 1), Element |-> d[Len(d)]]

\* CustomStack::Peek
StackPeek(d) ==
    IF StackIsEmpty(d)
    THEN [ok |-> FALSE, Element |-> NoElement]
    ELSE [ok |-> TRUE, Element |-> d[Len(d)]]

StackCall(op, arg) == [op |-> op, arg |-> arg]

\* CustomStack::CustomStack
StackStart(cap) ==
    /\ Data = <<>>
    /\ MaxCapacity = cap
    /\ stkOut = [ok |-> FALSE, Element |-> NoElement]
    /\ stkLast = StackCall("init", NoElement)
    /\ stkLive = {}
    /\ stkPushes = 0
    /\ stkScript = 0

StackPush(Element) ==
    /\ stkPushes < MaxPushes
    /\ \E r \in {Push(Data, MaxCapacity, Element)} :
          /\ Data' = r.Data
          /\ stkOut' = [ok |-> r.ok, Element |-> NoElement]
          /\ stkLive' = IF r.ok
                        THEN stkLive \cup {[Element |-> Element, Seq |-> stkPushes + 1]}
                        ELSE stkLive
    /\ stkPushes' = stkPushes + 1
    /\ stkLast' = StackCall("Push", Element)
    /\ stkScript' = StackScriptStep(stkScript, Element)
    /\ UNCHANGED <<MaxCapacity, StackOthers>>

StackPop ==
    /\ \E r \in {Pop(Data)} :
          /\ Data' = r.Data
          /\ stkOut' = [ok |-> r.ok, Element |-> r.Element]
    /\ stkLive' = {l \in stkLive : \E m \in stkLive : m.Seq > l.Seq}
    /\ stkLast' = StackCall("Pop", NoElement)
    /\ stkScript' = StackScriptStep(stkScript, "Pop")
    /\ UNCHANGED <<MaxCapacity, stkPushes, StackOthers>>

StackPeekTop ==
    /\ stkOut' = StackPeek(Data)
    /\ stkLast' = StackCall("Peek", NoElement)
    /\ stkScript' = -1
    /\ UNCHANGED <<Data, MaxCapacity, stkLive, stkPushes, StackOthers>>

\* CustomStack::Clear
StackClear ==
    /\ Data' = <<>>
    /\ stkOut' = [ok |-> FALSE, Element |-> NoElement]
    /\ stkLast' = StackCall("Clear", NoElement)
    /\ stkLive' = {}
    /\ stkPushes' = 0
    /\ stkScript' = 0
    /\ UNCHANGED <<MaxCapacity, StackOthers>>

StackNext ==
    \/ \E Element \in StackElems : StackPush(Element)
    \/ StackPop
    \/ StackPeekTop
    \/ StackClear

\* The push that succeeded last among those not popped yet.
Newest(live) == CHOOSE l \in live : \A m \in live : m.Seq <= l.Seq

\* C14: a CustomStack with MaxCapacity N > 0 is a bounded, non-evicting
\* LIFO: Size never exceeds N; a Push at Size = N returns false and leaves
\* the contents unchanged; each Pop returns the most recently successfully
\* pushed element not yet popped; Pop on an empty stack returns false.  With
\* N = 2, push A, B, C rejects C and the pops give B, A, then not-found.
C14_BoundedLifo ==
    /\ [](MaxCapacity > 0 => Len(Data) <= MaxCapacity)
    /\ [](MaxCapacity = 2 =>
            /\ stkScript = 3 => (~stkOut.ok /\ Data = <<"A", "B">>)
            /\ stkScript = 4 => (stkOut.ok /\ stkOut.Element = "B")
            /\ stkScript = 5 => (stkOut.ok /\ stkOut.Element = "A")
            /\ stkScript = 6 => (~stkOut.ok /\ Data = <<>>))
    /\ [][ /\ (stkLast'.op = "Push" /\ Len(Data) = MaxCapacity)
                 => (~stkOut'.ok /\ Data' = Data)
           /\ (stkLast'.op = "Push" /\ Len(Data) < MaxCapacity)
                 => (stkOut'.ok /\ Len(Data') = Len(Data) + 1)
           /\ (stkLast'.op = "Pop" /\ stkLive # {})
                 => (stkOut'.ok /\ stkOut'.Element = Newest(stkLive).Element
                     /\ Len(Data') = Len(Data) - 1)
           /\ (stkLast'.op = "Pop" /\ Data = <<>>)
                 => (~stkOut'.ok /\ Data' = Data) ]_vars

\* Scenario 5 ran to its end on a stack of capacity 2.
C14_Witness == MaxCapacity = 2 /\ stkScript = 6 /\ ~stkOut.ok /\ stkLast.op = "Pop"

(***************************************************************************)
(* SearchAlgorithms.  A sorted array is kept run-length encoded: a[v] is   *)
(* how many of its elements equal v, for v in 1..MaxSearchValue, so that   *)
(* arrays as long as an int32 index allows can be searched.  Indices are   *)
(* 0-based, as in the source.                                              *)
(***************************************************************************)
MaxSearchValue == 3   \* the arrays hold values in 1..MaxSearchValue
MaxRun == 2           \* a value occurs at most MaxRun times, or BigRun times
MaxSteps == 64        \* loop iterations and recursive calls followed per search
MaxLinear == 8        \* longest array LinearSearch and JumpSearch are run on

BigRun == 1073741824  \* 2^30 equal elements
MaxInt32 == 2147483647

SearchValues == 1..MaxSearchValue
SearchTargets == 0..(MaxSearchValue + 1)

\* The arrays: any short runs, and at most one long run.
SearchArrays ==
    { a \in [SearchValues -> (0..MaxRun) \cup {BigRun}] :
        Cardinality({v \in SearchValues : a[v] = BigRun}) <= 1 }

EmptyArray == [v \in SearchValues |-> 0]

\* How many elements of a are at most v.
RECURSIVE CountUpTo(_, _)
CountUpTo(a, v) == IF v = 0 THEN 0 ELSE a[v] + CountUpTo(a, v - 1)

\* TArray::Num
Num(a) == CountUpTo(a, MaxSearchValue)

\* TArray::operator[] inside the array, and whether an index is inside it.
InArray(a, i) == i >= 0 /\ i < Num(a)
At(a, i) == CHOOSE v \in SearchValues : CountUpTo(a, v - 1) <= i /\ i < CountUpTo(a, v)

\* What a search did: the index it returned, or how it went wrong ("read":
\* an index outside the array was read; "overflow": an int32 overflowed;
\* "steps": MaxSteps iterations did not end it).
Found(i) == [Index |-> i, fault |-> "none"]
Failed(f) == [Index |-> -1, fault |-> f]

\* BinarySearchRecursive(SortedArray, Target, Left, Right)
RECURSIVE BinarySearchRecursiveIn(_, _, _, _, _)
BinarySearchRecursiveIn(a, T, Left, Right, fuel) ==
    IF fuel = 0 THEN Failed("steps")
    ELSE IF Left > Right THEN Found(-1)
    ELSE LET Mid == Left + CDiv(Right - Left, 2)
         IN  IF ~InArray(a, Mid) THEN Failed("read")
             ELSE IF At(a, Mid) = T THEN Found(Mid)
             ELSE IF At(a, Mid) < T
                  THEN BinarySearchRecursiveIn(a, T, Mid + 1, Right, fuel - 1)
                  ELSE BinarySearchRecursiveIn(a, T, Left, Mid - 1, fuel - 1)

\* BinarySearchRecursive(SortedArray, Target)
BinarySearchRecursive(a, T) == BinarySearchRecursiveIn(a, T, 0, Num(a) - 1, MaxSteps)

\* The while loop of BinarySearch.
RECURSIVE BinarySearchLoop(_, _, _, _, _)
BinarySearchLoop(a, T, Left, Right, fuel) ==
    IF fuel = 0 THEN Failed("steps")
    ELSE IF ~(Left <= Right) THEN Found(-1)
    ELSE LET Mid == Left + CDiv(Right - Left, 2)
         IN  IF ~InArray(a, Mid) THEN Failed("read")
             ELSE IF At(a, Mid) = T THEN Found(Mid)
             ELSE IF At(a, Mid) < T
                  THEN BinarySearchLoop(a, T, Mid + 1, Right, fuel - 1)
                  ELSE BinarySearchLoop(a, T, Left, Mid - 1, fuel - 1)

BinarySearch(a, T) == BinarySearchLoop(a, T, 0, Num(a) - 1, MaxSteps)

\* The for loop of LinearSearch.
RECURSIVE LinearSearchLoop(_, _, _, _)
LinearSearchLoop(a, T, i, fuel) ==
    IF fuel = 0 THEN Failed("steps")
    ELSE IF ~(i < Num(a)) THEN Found(-1)
    ELSE IF ~InArray(a, i) THEN Failed("read")
    ELSE IF At(a, i) = T THEN Found(i)
    ELSE LinearSearchLoop(a, T, i + 1, fuel - 1)

LinearSearch(a, T) == LinearSearchLoop(a, T, 0, MaxSteps)

\* static_cast<int32>(FMath::Sqrt(static_cast<float>(n))), exact for the
\* lengths JumpSearch is run on.
SqrtInt(n) == CHOOSE r \in 0..n : r * r <= n /\ (r + 1) * (r + 1) > n

Min(x, y) == IF x < y THEN x ELSE y

\* The second while loop of JumpSearch and the test after it.
RECURSIVE JumpSearchBlock(_, _, _, _, _)
JumpSearchBlock(a, T, Prev, Step, fuel) ==
    IF fuel = 0 THEN Failed("steps")
    ELSE IF Prev < Num(a) /\ ~InArray(a, Prev) THEN Failed("read")
    ELSE IF Prev < Num(a) /\ At(a, Prev) < T
         THEN IF Prev + 1 = Min(Step, Num(a))
              THEN Found(-1)
              ELSE JumpSearchBlock(a, T, Prev + 1, Step, fuel - 1)
         ELSE IF Prev < Num(a) /\ At(a, Prev) = T THEN Found(Prev) ELSE Found(-1)

\* The first while loop of JumpSearch, and what follows it.
RECURSIVE JumpSearchJump(_, _, _, _, _)
JumpSearchJump(a, T, Prev, Step, fuel) ==
    IF fuel = 0 THEN Failed("steps")
    ELSE IF ~(Prev < Num(a)) THEN JumpSearchBlock(a, T, Prev, Step, fuel)
    ELSE IF ~InArray(a, Min(Step, Num(a)) - 1) THEN Failed("read")
    ELSE IF At(a, Min(Step, Num(a)) - 1) < T
         THEN IF Step >= Num(a)
              THEN Found(-1)
              ELSE JumpSearchJump(a, T, Step, Step + SqrtInt(Num(a)), fuel - 1)
         ELSE JumpSearchBlock(a, T, Prev, Step, fuel)

JumpSearch(a, T) == JumpSearchJump(a, T, 0, SqrtInt(Num(a)), MaxSteps)

\* The while loop of ExponentialSearch: the i it ends with.  i *= 2 is
\* undefined once 2 * i exceeds the largest int32.
RECURSIVE ExponentialSearchLoop(_, _, _, _)
ExponentialSearchLoop(a, T, i, fuel) ==
    IF fuel = 0 THEN [i |-> i, fault |-> "steps"]
    ELSE IF i < Num(a) /\ ~InArray(a, i) THEN [i |-> i, fault |-> "read"]
    ELSE IF i < Num(a) /\ At(a, i) <= T
         THEN IF i > CDiv(MaxInt32, 2)
              THEN [i |-> i, fault |-> "overflow"]
              ELSE ExponentialSearchLoop(a, T, i * 2, fuel - 1)
         ELSE [i |-> i, fault |-> "none"]

ExponentialSearch(a, T) ==
    IF Num(a) = 0 THEN Found(-1)
    ELSE IF At(a, 0) = T THEN Found(0)
    ELSE LET r == ExponentialSearchLoop(a, T, 1, MaxSteps)
         IN  IF r.fault # "none"
             THEN Failed(r.fault)
             ELSE BinarySearchRecursiveIn(a, T, CDiv(r.i, 2), Min(r.i, Num(a) - 1), MaxSteps)

\* The number of binary digits of n >= 1.
BitLen(n) == CHOOSE e \in 1..31 : n \div (2 ^ (e - 1)) = 1

\* Round to nearest, ties to even: q units and a remainder r of a unit u.
RoundEven(q, r, u) ==
    IF 2 * r > u \/ (2 * r = u /\ q % 2 = 1) THEN q + 1 ELSE q

\* A float with value m * 2^e.
Float(m, e) == [m |-> m, e |-> e]

\* static_cast<float>(n) for an int32 n >= 1: n rounded to 24 binary digits.
FloatOfInt(n) ==
    LET e == BitLen(n)
    IN  IF e <= 24 THEN Float(n * (2 ^ (24 - e)), e - 24)
        ELSE Float(RoundEven(n \div (2 ^ (e - 24)), n % (2 ^ (e - 24)), 2 ^ (e - 24)), e - 24)

\* float(p) / float(q) for 0 < p < q < 128 (p and q are floats exactly): the
\* quotient rounded to 24 binary digits.
FloatDiv(p, q) ==
    LET d == BitLen(q) - BitLen(p)
        s == IF (p * (2 ^ (23 + d))) \div q >= 2 ^ 23 THEN 23 + d ELSE 24 + d
        N == p * (2 ^ s)
    IN  Float(RoundEven(N \div q, N % q, q), -s)

\* The float product a * b: the 48-digit product of the two 24-digit
\* numbers, formed in 12-digit halves, rounded to 24 binary digits.
FloatMul(a, b) ==
    LET a1 == a.m \div 4096
        a0 == a.m % 4096
        b1 == b.m \div 4096
        b0 == b.m % 4096
        mid == a1 * b0 + a0 * b1
        t == (mid % 4096) * 4096 + a0 * b0
        H == a1 * b1 + (mid \div 4096) + (t \div 16777216)
        L == t % 16777216
    IN  IF H >= 8388608
        THEN Float(RoundEven(H, L, 16777216), a.e + b.e + 24)
        ELSE Float(RoundEven(2 * H + (L \div 8388608), L % 8388608, 8388608),
                   a.e + b.e + 23)

\* static_cast<int32>(x) for a float x >= 0 below 2^31: truncation.
IntOfFloat(x) ==
    IF x.e >= 0 THEN x.m * (2 ^ x.e)
    ELSE IF x.e <= -31 THEN 0
    ELSE x.m \div (2 ^ (-x.e))

\* static_cast<int32>(Ratio * (Right - Left)) with
\* Ratio = float(num) / float(den), for 0 <= num <= den, den > 0.
Interpolate(num, den, width) ==
    IF num = 0 THEN 0
    ELSE IF num = den THEN IntOfFloat(FloatOfInt(width))
    ELSE IntOfFloat(FloatMul(FloatDiv(num, den), FloatOfInt(width)))

\* FMath::Clamp
Clamp(x, lo, hi) == IF x < lo THEN lo ELSE IF x > hi THEN hi ELSE x

\* What InterpolationSearch did: Index and fault as for the other searches
\* (fault "probe": a position outside [Left, Right] was probed), ZeroDivisor
\* whether the last Ratio was computed with the divisor
\* SortedArray[Right] - SortedArray[Left] equal to 0.
Interpolated(i, f, z) == [Index |-> i, fault |-> f, ZeroDivisor |-> z]

\* Pos after the Clamp.  With a zero divisor Ratio is 0.0f / 0.0f, a NaN,
\* and its conversion to int32 is undefined: builds yield the least int32
\* or 0 (Pos is then clamped to Left), and any other value, the largest
\* included, is allowed (high: Pos is then clamped to Right).
ProbePosition(a, T, Left, Right, high) ==
    IF At(a, Right) = At(a, Left) THEN (IF high THEN Right ELSE Left)
    ELSE Clamp(Left + Interpolate(T - At(a, Left), At(a, Right) - At(a, Left), Right - Left),
               Left, Right)

\* One probe of the loop of InterpolationSearch, Left < Right and
\* SortedArray[Left] <= Target <= SortedArray[Right]: the return (Returns),
\* or the next Left and Right.
InterpolationProbe(a, T, Left, Right, Pos) ==
    LET z == At(a, Right) = At(a, Left)
        Returned(i, f) == [Returns |-> TRUE, Out |-> Interpolated(i, f, z),
                           Left |-> Left, Right |-> Right]
        Narrowed(l, r) == [Returns |-> FALSE, Out |-> Interpolated(-1, "none", z),
                           Left |-> l, Right |-> r]
    IN  CASE Pos < Left \/ Pos > Right -> Returned(-1, "probe")
          [] ~InArray(a, Pos) -> Returned(-1, "read")
          [] At(a, Pos) = T -> Returned(Pos, "none")
          [] At(a, Pos) < T -> Narrowed(Pos + 1, Right)
          [] OTHER -> Narrowed(Left, Pos - 1)

\* The while loop of InterpolationSearch.
RECURSIVE InterpolationSearchLoop(_, _, _, _, _)
InterpolationSearchLoop(a, T, LR, high, fuel) ==
    CASE fuel = 0 -> Interpolated(-1, "steps", FALSE)
      [] ~(LR[1] <= LR[2]) -> Interpolated(-1, "none", FALSE)
      [] ~InArray(a, LR[1]) \/ ~InArray(a, LR[2]) -> Interpolated(-1, "read", FALSE)
      [] ~(T >= At(a, LR[1]) /\ T <= At(a, LR[2])) -> Interpolated(-1, "none", FALSE)
      [] LR[1] = LR[2] ->
             Interpolated(IF At(a, LR[1]) = T THEN LR[1] ELSE -1, "none", FALSE)
      [] OTHER ->
             LET r == InterpolationProbe(a, T, LR[1], LR[2],
                                         ProbePosition(a, T, LR[1], LR[2], high))
             IN  IF r.Returns THEN r.Out
                 ELSE InterpolationSearchLoop(a, T, <<r.Left, r.Right>>, high, fuel - 1)

\* SearchAlgorithms::InterpolationSearch.
InterpolationSearch(a, T, high) ==
    InterpolationSearchLoop(a, T, <<0, Num(a) - 1>>, high, MaxSteps)

\* What the caller may see of a search: its result, or after an int32
\* overflow any of a wrong return, a read outside the array, or no return.
Outcomes(r) ==
    IF r.fault = "overflow"
    THEN {Failed("overflow"), Failed("read"), Failed("steps")}
    ELSE {r}

Searches == {"BinarySearch", "BinarySearchRecursive", "LinearSearch",
             "JumpSearch", "ExponentialSearch"}

AllSearches == Searches \cup {"InterpolationSearch"}

NotCalled == [Index |-> -1, fault |-> "not called"]

SearchStart(a, T) ==
    /\ SortedArray = a
    /\ Target = T
    /\ srchOut = [s \in AllSearches |-> NotCalled]

Returned(s, r) ==
    /\ srchOut[s] = NotCalled
    /\ \E o \in Outcomes(r) : srchOut' = [srchOut EXCEPT ![s] = o]
    /\ UNCHANGED <<SortedArray, Target, SearchOthers>>

SearchBinarySearch ==
    \E r \in {BinarySearch(SortedArray, Target)} : Returned("BinarySearch", r)

SearchBinarySearchRecursive ==
    \E r \in {BinarySearchRecursive(SortedArray, Target)} : Returned("BinarySearchRecursive", r)

SearchLinearSearch ==
    /\ Num(SortedArray) <= MaxLinear
    /\ \E r \in {LinearSearch(SortedArray, Target)} : Returned("LinearSearch", r)

SearchJumpSearch ==
    /\ Num(SortedArray) <= MaxLinear
    /\ \E r \in {JumpSearch(SortedArray, Target)} : Returned("JumpSearch", r)

SearchExponentialSearch ==
    \E r \in {ExponentialSearch(SortedArray, Target)} : Returned("ExponentialSearch", r)

SearchInterpolationSearch ==
    /\ srchOut["InterpolationSearch"] = NotCalled
    /\ \E high \in BOOLEAN :
          srchOut' = [srchOut EXCEPT !["InterpolationSearch"] =
                          InterpolationSearch(SortedArray, Target, high)]
    /\ UNCHANGED <<SortedArray, Target, SearchOthers>>

SearchNext ==
    \/ SearchBinarySearch
    \/ SearchBinarySearchRecursive
    \/ SearchLinearSearch
    \/ SearchJumpSearch
    \/ SearchExponentialSearch

Present(a, T) == T \in SearchValues /\ a[T] > 0

\* The search returned, read nothing outside the array, and its answer is
\* -1 exactly when the target is absent and otherwise an index of the target.
Correct(r, a, T) ==
    /\ r.fault = "none"
    /\ r.Index = -1 <=> ~Present(a, T)
    /\ r.Index # -1 => (InArray(a, r.Index) /\ At(a, r.Index) = T)

\* C16: for every ascending-sorted integer array and every target,
\* BinarySearch, BinarySearchRecursive, LinearSearch, JumpSearch and
\* ExponentialSearch each terminate without reading outside the array,
\* return -1 exactly when the target is absent, and otherwise return an
\* index i with Array[i] = Target.
C16_SearchesCorrect ==
    \A s \in Searches :
        srchOut[s] # NotCalled => Correct(srchOut[s], SortedArray, Target)

\* What the searches deliver: the same for arrays of at most MaxLinear
\* elements.
C16_ShortArrays ==
    Num(SortedArray) <= MaxLinear => C16_SearchesCorrect

\* InterpolationSearch has returned.
InterpolationDone == srchOut["InterpolationSearch"] # NotCalled

\* C38: in InterpolationSearch, for every ascending-sorted integer array
\* (duplicates allowed) and every target, whenever the interpolation ratio is
\* computed its divisor SortedArray[Right] - SortedArray[Left] is not zero,
\* the probe position lies in [Left, Right], and the search terminates
\* returning -1 or an index that holds the target.
C38_InterpolationSafe ==
    InterpolationDone =>
        /\ ~srchOut["InterpolationSearch"].ZeroDivisor
        /\ srchOut["InterpolationSearch"].fault = "none"
        /\ srchOut["InterpolationSearch"].Index # -1
              => /\ InArray(SortedArray, srchOut["InterpolationSearch"].Index)
                 /\ At(SortedArray, srchOut["InterpolationSearch"].Index) = Target

\* What the search delivers: it terminates without a read outside the
\* array and its answer is right, with or without a zero divisor on the way.
C38_InterpolationResult ==
    InterpolationDone => Correct(srchOut["InterpolationSearch"], SortedArray, Target)

\* The ratio is computed with a divisor other than zero whenever the array
\* has no two equal elements.
C38_DistinctElements ==
    (InterpolationDone /\ \A v \in SearchValues : SortedArray[v] <= 1)
        => ~srchOut["InterpolationSearch"].ZeroDivisor

\* A search over a run of equal elements computed 0 / 0 and returned.
C38_ZeroDivisorReached ==
    /\ InterpolationDone
    /\ srchOut["InterpolationSearch"].ZeroDivisor
    /\ srchOut["InterpolationSearch"].Index # -1

(***************************************************************************)
(* The not-found returns of the priority queue, the stack and the map.     *)
(* The three structures share no state: a behaviour exercises one of them  *)
(* and leaves the other two as constructed.                                *)
(***************************************************************************)
PQFresh == pqLast = "init"
HMFresh == hmLast.op = "init"
StackFresh == stkLast.op = "init"

StructuresNext ==
    \/ HMFresh /\ StackFresh /\ PQNext
    \/ PQFresh /\ StackFresh /\ HMNext
    \/ PQFresh /\ StackFresh /\ \E k \in HMKeys : HMContains(k)
    \/ PQFresh /\ HMFresh /\ StackNext

\* C20: not-found conditions are reported as a false return value with the
\* structure left unchanged: Dequeue and Peek on an empty priority queue,
\* UpdatePriority of an element not in the queue, Pop and Peek on an empty
\* stack, and Find, Contains and Remove of a key absent from the map each
\* return false and change neither contents nor size.
C20_NotFoundReturnsFalse ==
    /\ [](\A e \in PQElems, p \in 1..MaxPrio :
             ~PQContains(Heap, e) => UpdatePriority(Heap, e, p) = [ok |-> FALSE, heap |-> Heap])
    /\ [](\A k \in HMKeys :
             hmRef[k] = NoEntry =>
                 /\ ~Find(HMap, k).ok
                 /\ ~ContainsKey(HMap, k)
                 /\ Remove(HMap, k) = [ok |-> FALSE, map |-> HMap])
    /\ [][ /\ (pqLast' \in {"Dequeue", "Peek"} /\ Heap = <<>>)
                 => (~pqOut'.ok /\ Heap' = Heap)
           /\ (pqLast' = "UpdatePriority" /\ ~pqOut'.ok)
                 => Heap' = Heap
           /\ (pqLast' = "UpdatePriority" /\ Heap = <<>>)
                 => ~pqOut'.ok
           /\ (stkLast'.op \in {"Pop", "Peek"} /\ Data = <<>>)
                 => (~stkOut'.ok /\ Data' = Data)
           /\ (hmLast'.op \in {"Find", "Contains", "Remove"} /\ hmRef[hmLast'.Key] = NoEntry)
                 => (~hmOut'.ok /\ Buckets' = Buckets /\ Size' = Size /\ Capacity' = Capacity)
         ]_vars

\* Remove of a key that is not stored walked a chain that holds another key.
C20_Witness ==
    /\ hmLast.op = "Remove" /\ ~hmLast.Had /\ ~hmOut.ok
    /\ Buckets[Hash(Capacity, hmLast.Key) + 1] # <<>>
    /\ Size = 2

(***************************************************************************)
(* Clear() of the quadtree, the map, the priority queue and the stack,     *)
(* each structure exercised alone as above.                                *)
(***************************************************************************)
QTFresh == qtLast.op = "init"

ClearNext ==
    \/ QTFresh /\ StructuresNext
    \/ PQFresh /\ HMFresh /\ StackFresh /\ QT1Next

\* C21: Clear() is idempotent on the quadtree, the map, the priority queue
\* and the stack: a second Clear() leaves the structure in the same empty
\* state (size 0, no stored elements, quadtree root a leaf) as the first,
\* and the structure accepts the inserts that follow.
C21_ClearIdempotent ==
    /\ [](qtLast.op = "Clear" =>
            /\ GetSize(qt) = 0 /\ ~qt.bSubdivided /\ qt.Children = <<>> /\ qt.Points = <<>>
            /\ QuadClear(qt) = qt)
    /\ [](hmLast.op = "Clear" =>
            /\ Size = 0 /\ \A b \in 1..Capacity : Buckets[b] = <<>>
            /\ Len(Buckets) = Capacity
            /\ Clear(HMap) = HMap)
    /\ [](pqLast = "Clear" => Heap = <<>>)
    /\ [](stkLast.op = "Clear" => Data = <<>>)
    /\ [][ /\ (qtLast.op = "Clear" /\ qtLast'.op = "Insert"
                  /\ InsideRange(qt.Boundary, qtLast'.arg.Position))
                 => (qtOut'.ok /\ ~qtFault' /\ GetSize(qt') = 1
                     /\ Query(qt', qt.Boundary) = <<qtLast'.arg>>)
           /\ (hmLast.op = "Clear" /\ hmLast'.op = "Insert")
                 => (Size' = 1 /\ Find(HMap', hmLast'.Key).ok)
           /\ (pqLast = "Clear" /\ pqLast' = "Enqueue")
                 => Len(Heap') = 1
           /\ (stkLast.op = "Clear" /\ stkLast'.op = "Push")
                 => (stkOut'.ok /\ Data' = <<stkLast'.arg>>)
         ]_vars

\* The map was cleared after it had grown by two rehashes.
C21_Witness == hmLast.op = "Clear" /\ Size = 0 /\ Capacity = 4 * HMInitialCapacity

(***************************************************************************)
(* AEnemyDirectorEnhanced: the registry, the threat queue, the waves and   *)
(* the four queries                                                        *)
(*                                                                         *)
(* An enemy actor is its (1-based) place in PEnemies; 0 is the null        *)
(* pointer.  A float is a whole number of 1/FloatScale; FVector::Dist is   *)
(* rounded down to a whole unit.  Walking speeds, sounds, the HUD and the  *)
(* elapsed times (QuadtreeQueryTime, SortTime, SearchTime) are left out.   *)
(***************************************************************************)
NumActors == 3          \* enemy actors in the level
RegistryCapacity == 4   \* the capacity the constructor gives EnemyRegistry
                        \* (128 in the source), scaled down so that a
                        \* rebuild over a handful of enemies rehashes
MaxWave == 3            \* no wave is started after wave MaxWave
MaxCalls == 2           \* query calls made on one director
FloatScale == 1000

\* The wave configuration (EditAnywhere properties of the director).
IInitialWaveSpawnCount == 1
IMaxEnemiesInWave == 2
IFinalGrowthWave == 1
IMaxEnemyArenaCapacity == 2
IWaveMaxEnemyArenaCapacityReached == 2
InitialMaxEnemiesInArena == 1
PSpawnLocations == << Vec(30, 40), Vec(-200, 300) >>

\* Where the player may stand, and the positions and distance limits
\* FindNearestEnemy is asked with (-1: no limit).
PlayerLocations == { Vec(0, 0), Vec(-200, 300) }
NearestLimits == {-1, 0, 50}

\* FEnemyPriority(InID, InPriority, InDistance): Priority is the key the
\* comparators read.
FEnemyPriority(InID, InPriority, InDistance) ==
    [Key |-> InPriority, Tag |-> [EnemyID |-> InID, DistanceToPlayer |-> InDistance]]

\* CustomHashMap<int32, AActor*>(InitialCapacity)
CustomHashMap(InitialCapacity) ==
    [Buckets |-> EmptyBuckets(InitialCapacity), Size |-> 0,
     Capacity |-> InitialCapacity, Rehashes |-> 0]

\* CustomHashMap::GetKeys: bucket by bucket, each chain from its head.
GetKeys(m) ==
    LET nodes == RehashOrder(m.Buckets)
    IN  [i \in DOMAIN nodes |-> nodes[i].Key]

\* The loop of RebuildEnemyRegistry from the enemy with id NextID on.
RECURSIVE RegisterFrom(_, _, _)
RegisterFrom(m, enemies, NextID) ==
    IF NextID >= Len(enemies) THEN m
    ELSE RegisterFrom(Insert(m, NextID, NextID + 1), enemies, NextID + 1)

\* A rebuild that does not clear the registry first.
RebuildEnemyRegistry_NoClear(m, enemies) ==
    [Registry |-> RegisterFrom(m, enemies, 0), NextEnemyID |-> Len(enemies)]

\* AEnemyDirectorEnhanced::RebuildEnemyRegistry: the registry and
\* NextEnemyID after it.
RebuildEnemyRegistry(m, enemies) ==
    [Registry |-> RegisterFrom(Clear(m), enemies, 0), NextEnemyID |-> Len(enemies)]

\* The reverse lookup of UpdateEnemyPriorities and GetSortedEnemiesByThreat:
\* the first key of GetKeys whose value is Actor, -1 if there is none.
EnemyIDOf(m, Actor) ==
    LET Keys == GetKeys(m)
        hits == {i \in DOMAIN Keys :
                    Find(m, Keys[i]).ok /\ Find(m, Keys[i]).Value = Actor}
    IN  IF hits = {} THEN -1 ELSE Keys[MinOf(hits)]

\* The loop of UpdateEnemyPriorities from enemy i on; Threat = Distance / 100.
RECURSIVE EnqueueThreats(_, _, _, _, _)
EnqueueThreats(q, m, enemies, PlayerLocation, i) ==
    IF i > Len(enemies) THEN q
    ELSE IF ~enemies[i].BInArena
         THEN EnqueueThreats(q, m, enemies, PlayerLocation, i + 1)
    ELSE LET Distance == Dist(enemies[i].Location, PlayerLocation)
             Threat == (Distance * FloatScale) \div 100
             EnemyID == EnemyIDOf(m, i)
         IN  IF EnemyID >= 0
             THEN EnqueueThreats(
                      Enqueue(q, FEnemyPriority(EnemyID, Threat, Distance), Threat),
                      m, enemies, PlayerLocation, i + 1)
             ELSE EnqueueThreats(q, m, enemies, PlayerLocation, i + 1)

\* An UpdateEnemyPriorities that does not clear the queue q first.
UpdateEnemyPriorities_NoClear(q, m, enemies, PlayerLocation) ==
    EnqueueThreats(q, m, enemies, PlayerLocation, 1)

\* AEnemyDirectorEnhanced::UpdateEnemyPriorities on the ThreatQueue q: the
\* ThreatQueue after it (q is cleared first).
UpdateEnemyPriorities(q, m, enemies, PlayerLocation) ==
    EnqueueThreats(<<>>, m, enemies, PlayerLocation, 1)

\* The first loop of GetSortedEnemiesByThreat from enemy i on;
\* Threat = 10000 / (Distance + 1).
RECURSIVE Priorities(_, _, _, _)
Priorities(m, enemies, PlayerLocation, i) ==
    IF i > Len(enemies) THEN <<>>
    ELSE IF ~enemies[i].BInArena THEN Priorities(m, enemies, PlayerLocation, i + 1)
    ELSE LET Distance == Dist(enemies[i].Location, PlayerLocation)
             EnemyID == EnemyIDOf(m, i)
             Threat == (10000 * FloatScale) \div (Distance + 1)
         IN  (IF EnemyID >= 0
              THEN <<FEnemyPriority(EnemyID, Threat, Distance)>> ELSE <<>>)
             \o Priorities(m, enemies, PlayerLocation, i + 1)

\* A GetSortedEnemiesByThreat whose comparator is A.Priority < B.Priority.
GetSortedEnemiesByThreat_Ascending(m, enemies, PlayerLocation) ==
    QuickSort(Priorities(m, enemies, PlayerLocation, 1), "Less")

\* AEnemyDirectorEnhanced::GetSortedEnemiesByThreat, the comparator being
\* A.Priority > B.Priority.
GetSortedEnemiesByThreat(m, enemies, PlayerLocation) ==
    QuickSort(Priorities(m, enemies, PlayerLocation, 1), "Greater")

\* AEnemyDirectorEnhanced::FindEnemyByID: the actor, or the null pointer.
FindEnemyByID(m, EnemyID) ==
    IF Find(m, EnemyID).ok THEN Find(m, EnemyID).Value ELSE 0

\* The points stored in a quadtree.
StoredPoints(n) == UNION { Range(x.Points) : x \in Nodes(n) }

\* FQuadtree::FindNearest(Position, OutNearest, MaxDistance): every answer
\* [ok, Point] it may give.  The closest stored point, within MaxDistance
\* when MaxDistance is not negative; failure when there is none.
FindNearest(n, Position, MaxDistance) ==
    LET InReach == { pt \in StoredPoints(n) :
                        \/ MaxDistance < 0
                        \/ DistSquared(pt.Position, Position) <= MaxDistance * MaxDistance }
        Closest == { pt \in InReach :
                        \A o \in InReach : DistSquared(pt.Position, Position)
                                               <= DistSquared(o.Position, Position) }
    IN  IF InReach = {} THEN { [ok |-> FALSE, Point |-> FQuadtreePoint(Vec(0, 0), 0)] }
        ELSE { [ok |-> TRUE, Point |-> pt] : pt \in Closest }

\* A FindNearestEnemy that returns the null pointer whatever was found.
FindNearestEnemy_AlwaysNull(n, Position, MaxDistance) == {0}

\* AEnemyDirectorEnhanced::FindNearestEnemy: the actors it may return.
FindNearestEnemy(n, Position, MaxDistance) ==
    { IF r.ok THEN r.Point.Data ELSE 0 : r \in FindNearest(n, Position, MaxDistance) }

\* AEnemyDirectorEnhanced::UpdateWaveSize
UpdateWaveSize(wave) ==
    Min(IMaxEnemiesInWave,
        IInitialWaveSpawnCount
            + CDiv((wave - 1) * (IMaxEnemiesInWave - IInitialWaveSpawnCount),
                   IFinalGrowthWave))

\* AEnemyDirectorEnhanced::UpdateEnemyArenaCapacity
UpdateEnemyArenaCapacity(wave, maxInArena) ==
    Min(IMaxEnemyArenaCapacity,
        maxInArena + CDiv((wave - 1) * (IMaxEnemyArenaCapacity - maxInArena),
                          IWaveMaxEnemyArenaCapacityReached))

\* Mutant of SpawnedEnemies: the kills of the wave are not taken off what
\* is left to spawn.
SpawnedEnemies_IgnoresKills(enemies) ==
    LET Pooled == SelectSeq([i \in DOMAIN enemies |-> i], LAMBDA i : ~enemies[i].BInArena)
        iPooledEnemiesCount == Len(Pooled)
        iArenaEnemiesCount == Len(enemies) - Len(Pooled)
        iLeftToSpawn == ICurrentWaveSize - iArenaEnemiesCount
        iArenaCapacityLeft == IMaxEnemiesInArena - iArenaEnemiesCount
        iAmountSpawnable == Min(iPooledEnemiesCount, Min(iArenaCapacityLeft, iLeftToSpawn))
    IN  IF iPooledEnemiesCount = 0 \/ iLeftToSpawn <= 0 \/ iArenaCapacityLeft <= 0
        THEN {}
        ELSE { Pooled[k] : k \in 1..iAmountSpawnable }

\* The enemies AttemptSpawnEnemies activates: the first iAmountSpawnable of
\* the pooled ones, none when one of its early returns is taken.
SpawnedEnemies(enemies) ==
    LET Pooled == SelectSeq([i \in DOMAIN enemies |-> i], LAMBDA i : ~enemies[i].BInArena)
        iPooledEnemiesCount == Len(Pooled)
        iArenaEnemiesCount == Len(enemies) - Len(Pooled)
        iLeftToSpawn == (ICurrentWaveSize - IWaveKills) - iArenaEnemiesCount
        iArenaCapacityLeft == IMaxEnemiesInArena - iArenaEnemiesCount
        iAmountSpawnable == Min(iPooledEnemiesCount, Min(iArenaCapacityLeft, iLeftToSpawn))
    IN  IF iPooledEnemiesCount = 0 \/ iLeftToSpawn <= 0 \/ iArenaCapacityLeft <= 0
        THEN {}
        ELSE { Pooled[k] : k \in 1..iAmountSpawnable }

\* AEnemyDirectorEnhanced::AttemptSpawnEnemies: PEnemies after it.  SpawnAt[i]
\* is the spawn location FMath::RandRange picks for the enemy i it activates.
AttemptSpawnEnemies(enemies, SpawnAt) ==
    [i \in DOMAIN enemies |->
        IF i \in SpawnedEnemies(enemies)
        THEN AEnemy(PSpawnLocations[SpawnAt[i]], TRUE)
        ELSE enemies[i]]

\* The constructor.
EDConstructed ==
    /\ EnemyRegistry = CustomHashMap(RegistryCapacity)
    /\ NextEnemyID = 0
    /\ ThreatQueue = <<>>
    /\ m_bWaveIntermission = FALSE
    /\ ICurrentWave = 0
    /\ ICurrentWaveSize = 0
    /\ IWaveKills = 0
    /\ IMaxEnemiesInArena = InitialMaxEnemiesInArena
    /\ pTimerHandleCurrent = "none"
    /\ edCalls = 0

\* After the constructor and BeginPlay in a level of n enemy actors, all
\* pooled: the registry is built, the index is empty, and NextWave has set up
\* wave 1 and its timer.
EDStart(n) ==
    /\ PEnemies = [i \in 1..n |-> AEnemy(StartLocation(i), FALSE)]
    /\ SpatialPartition = FQuadtree(ArenaBounds, 0)
    /\ TotalQueries = 0
    /\ dirFault = FALSE
    /\ dirOut = NoResult
    /\ dirLast = DirCall("BeginPlay")
    /\ dirFresh = FALSE
    /\ LET r == RebuildEnemyRegistry(CustomHashMap(RegistryCapacity),
                                     [i \in 1..n |-> AEnemy(StartLocation(i), FALSE)])
       IN  EnemyRegistry = r.Registry /\ NextEnemyID = r.NextEnemyID
    /\ ThreatQueue = <<>>
    /\ m_bWaveIntermission = FALSE
    /\ ICurrentWave = 1
    /\ ICurrentWaveSize = UpdateWaveSize(1)
    /\ IWaveKills = 0
    /\ IMaxEnemiesInArena = UpdateEnemyArenaCapacity(1, InitialMaxEnemiesInArena)
    /\ pTimerHandleCurrent = "NextWaveDelayedCallback"
    /\ edCalls = 0

\* AEnemyDirectorEnhanced::Tick
EDTick ==
    /\ ~dirFault
    /\ IF m_bWaveIntermission
       THEN UNCHANGED <<PEnemies, SpatialPartition, dirFault, dirFresh>>
       ELSE \E r \in {UpdateSpatialPartition(SpatialPartition, PEnemies)} :
               /\ SpatialPartition' = r.node
               /\ dirFault' = r.fault
               /\ IF r.fault THEN PEnemies' = PEnemies
                  ELSE \E SpawnAt \in [SpawnedEnemies(PEnemies) -> DOMAIN PSpawnLocations] :
                          PEnemies' = AttemptSpawnEnemies(PEnemies, SpawnAt)
               /\ dirFresh' = (PEnemies' = PEnemies)
    /\ dirLast' = DirCall("Tick")
    /\ dirOut' = NoResult
    /\ UNCHANGED <<TotalQueries, edVars>>
    /\ UNCHANGED EDOthers

\* AEnemy::ReturnToPool of an enemy in the arena: its OnEnemyKilled delegate
\* runs ConfirmEnemyKilled (and with the last kill of the wave EndWave), then
\* the enemy goes back to its pool location and leaves the arena.
EDReturnToPool(i) ==
    /\ ~dirFault
    /\ PEnemies[i].BInArena
    /\ IWaveKills' = IWaveKills + 1
    /\ IF IWaveKills + 1 >= ICurrentWaveSize
       THEN /\ m_bWaveIntermission' = TRUE
            /\ pTimerHandleCurrent' = "EndWaveDelayedCallback"
       ELSE UNCHANGED <<m_bWaveIntermission, pTimerHandleCurrent>>
    /\ PEnemies' = [PEnemies EXCEPT ![i] = AEnemy(StartLocation(i), FALSE)]
    /\ dirFresh' = FALSE
    /\ dirLast' = DirCall("ReturnToPool")
    /\ dirOut' = NoResult
    /\ UNCHANGED <<SpatialPartition, TotalQueries, dirFault>>
    /\ UNCHANGED <<EnemyRegistry, NextEnemyID, ThreatQueue, ICurrentWave,
                   ICurrentWaveSize, IMaxEnemiesInArena, edCalls>>
    /\ UNCHANGED EDOthers

\* The timer NextWave set fires: NextWaveDelayedCallback.
EDNextWaveDelayedCallback ==
    /\ ~dirFault
    /\ pTimerHandleCurrent = "NextWaveDelayedCallback"
    /\ m_bWaveIntermission' = FALSE
    /\ pTimerHandleCurrent' = "none"
    /\ dirLast' = DirCall("NextWaveDelayedCallback")
    /\ dirOut' = NoResult
    /\ UNCHANGED <<PEnemies, SpatialPartition, TotalQueries, dirFault, dirFresh>>
    /\ UNCHANGED <<EnemyRegistry, NextEnemyID, ThreatQueue, ICurrentWave,
                   ICurrentWaveSize, IWaveKills, IMaxEnemiesInArena, edCalls>>
    /\ UNCHANGED EDOthers

\* The timer EndWave set fires: EndWaveDelayedCallback, which is NextWave
\* (UpdateWaveParameters, then the timer of NextWaveDelayedCallback).
EDEndWaveDelayedCallback ==
    /\ ~dirFault
    /\ pTimerHandleCurrent = "EndWaveDelayedCallback"
    /\ ICurrentWave < MaxWave
    /\ ICurrentWave' = ICurrentWave + 1
    /\ IWaveKills' = 0
    /\ ICurrentWaveSize' = UpdateWaveSize(ICurrentWave + 1)
    /\ IMaxEnemiesInArena' = UpdateEnemyArenaCapacity(ICurrentWave + 1, IMaxEnemiesInArena)
    /\ pTimerHandleCurrent' = "NextWaveDelayedCallback"
    /\ dirLast' = DirCall("EndWaveDelayedCallback")
    /\ dirOut' = NoResult
    /\ UNCHANGED <<PEnemies, SpatialPartition, TotalQueries, dirFault, dirFresh>>
    /\ UNCHANGED <<EnemyRegistry, NextEnemyID, ThreatQueue, m_bWaveIntermission, edCalls>>
    /\ UNCHANGED EDOthers

\* A query call: what it returns, and whether it counts itself in
\* TotalQueries.
EDQuery(call, Result, counted) ==
    /\ ~dirFault
    /\ edCalls < MaxCalls
    /\ edCalls' = edCalls + 1
    /\ dirLast' = call
    /\ dirOut' = [Result |-> Result]
    /\ TotalQueries' = IF counted THEN TotalQueries + 1 ELSE TotalQueries
    /\ UNCHANGED <<PEnemies, SpatialPartition, dirFault, dirFresh>>
    /\ UNCHANGED <<EnemyRegistry, NextEnemyID, ThreatQueue, m_bWaveIntermission,
                   ICurrentWave, ICurrentWaveSize, IWaveKills, IMaxEnemiesInArena,
                   pTimerHandleCurrent>>
    /\ UNCHANGED EDOthers

EDFindNearestEnemy(Position, MaxDistance) ==
    \E Actor \in FindNearestEnemy(SpatialPartition, Position, MaxDistance) :
        EDQuery([op |-> "FindNearestEnemy", Center |-> Position, Radius |-> MaxDistance],
                Actor, TRUE)

EDFindEnemiesInRadius(Center, Radius) ==
    EDQuery([op |-> "FindEnemiesInRadius", Center |-> Center, Radius |-> Radius],
            FindEnemiesInRadius(SpatialPartition, Center, Radius), TRUE)

\* PlayerLocation: where the world's player character stands.
EDGetSortedEnemiesByThreat(PlayerLocation) ==
    EDQuery([op |-> "GetSortedEnemiesByThreat", Center |-> PlayerLocation, Radius |-> 0],
            GetSortedEnemiesByThreat(EnemyRegistry, PEnemies, PlayerLocation), FALSE)

EDFindEnemyByID(EnemyID) ==
    EDQuery([op |-> "FindEnemyByID", Center |-> Vec(0, 0), Radius |-> 0,
             EnemyID |-> EnemyID],
            FindEnemyByID(EnemyRegistry, EnemyID), FALSE)

\* UpdateEnemyPriorities(PlayerLocation).  Nothing in the source calls it.
EDUpdateEnemyPriorities(PlayerLocation) ==
    /\ ~dirFault
    /\ ThreatQueue' = UpdateEnemyPriorities(ThreatQueue, EnemyRegistry, PEnemies, PlayerLocation)
    /\ dirLast' = [op |-> "UpdateEnemyPriorities", Center |-> PlayerLocation, Radius |-> 0]
    /\ dirOut' = NoResult
    /\ UNCHANGED <<PEnemies, SpatialPartition, TotalQueries, dirFault, dirFresh>>
    /\ UNCHANGED <<EnemyRegistry, NextEnemyID, m_bWaveIntermission, ICurrentWave,
                   ICurrentWaveSize, IWaveKills, IMaxEnemiesInArena,
                   pTimerHandleCurrent, edCalls>>
    /\ UNCHANGED EDOthers

\* The game around the queries: frames, kills, timers, enemies walking.
EDGameNext ==
    \/ EDTick
    \/ \E i \in DOMAIN PEnemies : EDReturnToPool(i)
    \/ EDNextWaveDelayedCallback
    \/ EDEndWaveDelayedCallback
    \/ \E i \in DirMovers, loc \in DirLocations :
          PEnemies[i].BInArena /\ DirEnemyMoves(i, loc)

\* The game and the four queries.
EDNext ==
    \/ EDGameNext
    \/ \E Position \in PlayerLocations, MaxDistance \in NearestLimits :
          EDFindNearestEnemy(Position, MaxDistance)
    \/ \E c \in DirCentres, r \in DirRadii : EDFindEnemiesInRadius(c, r)
    \/ \E PlayerLocation \in PlayerLocations : EDGetSortedEnemiesByThreat(PlayerLocation)
    \/ \E EnemyID \in -1..NumActors : EDFindEnemyByID(EnemyID)

\* The game and the threat recalculation.
ThreatNext ==
    \/ EDGameNext
    \/ \E PlayerLocation \in PlayerLocations : EDUpdateEnemyPriorities(PlayerLocation)

\* C22: every Tick, in every wave phase (the intermission included), clears
\* and rebuilds both the registry and the spatial index from PEnemies, so
\* that the queries after the Tick see the enemies and positions of that
\* Tick.
C22_TickRebuildsIndices ==
    [][ dirLast'.op = "Tick" =>
          /\ SpatialPartition' = UpdateSpatialPartition(SpatialPartition, PEnemies).node
          /\ EnemyRegistry' = RebuildEnemyRegistry(EnemyRegistry, PEnemies).Registry
      ]_vars

\* What holds of Tick: outside the intermission it rebuilds the index from
\* PEnemies as they are when it starts, and the registry always has the
\* content a rebuild would give it (PEnemies is set once, in BeginPlay).
C22_TickOutsideIntermission ==
    [][ dirLast'.op = "Tick" =>
          /\ EnemyRegistry' = RebuildEnemyRegistry(EnemyRegistry, PEnemies).Registry
          /\ ~m_bWaveIntermission =>
                SpatialPartition' = UpdateSpatialPartition(SpatialPartition, PEnemies).node
      ]_vars

(***************************************************************************)
(* The registry alone: levels of up to MaxRegistered enemy actors.         *)
(* BeginPlay is the only caller of RebuildEnemyRegistry; here the actors   *)
(* of the level are listed and registered again and again, as the function *)
(* is written to allow (it clears the registry first).                     *)
(***************************************************************************)
MaxRegistered == 8

\* PEnemies is filled with the n enemy actors of the level
\* (GetAllActorsOfClass), then RebuildEnemyRegistry runs.
EDRebuildEnemyRegistry(n) ==
    LET Listed == [i \in 1..n |-> AEnemy(StartLocation(i), FALSE)]
    IN  /\ ~dirFault
        /\ PEnemies' = Listed
        /\ \E r \in {RebuildEnemyRegistry(EnemyRegistry, Listed)} :
              /\ EnemyRegistry' = r.Registry
              /\ NextEnemyID' = r.NextEnemyID
        /\ dirLast' = DirCall("RebuildEnemyRegistry")
        /\ dirOut' = NoResult
        /\ dirFresh' = FALSE
        /\ UNCHANGED <<SpatialPartition, TotalQueries, dirFault>>
        /\ UNCHANGED <<ThreatQueue, m_bWaveIntermission, ICurrentWave, ICurrentWaveSize,
                       IWaveKills, IMaxEnemiesInArena, pTimerHandleCurrent, edCalls>>
        /\ UNCHANGED EDOthers

RegistryNext ==
    \/ \E n \in 0..MaxRegistered : EDRebuildEnemyRegistry(n)
    \/ \E EnemyID \in -1..(MaxRegistered + 1) : EDFindEnemyByID(EnemyID)

\* C23: after RebuildEnemyRegistry over a master list of n enemies (n may be
\* large enough to force rehashes), the registry holds exactly the keys
\* 0..n-1, key k maps to the k-th enemy of the list, FindEnemyByID(k)
\* returns that enemy for 0 <= k < n and null for every other id, and
\* nothing of an earlier rebuild remains.
C23_RegistryAfterRebuild ==
    LET n == Len(PEnemies)
        Keys == GetKeys(EnemyRegistry)
    IN  /\ NextEnemyID = n
        /\ EnemyRegistry.Size = n
        /\ Len(Keys) = n
        /\ Range(Keys) = 0..(n - 1)
        /\ \A k \in -1..(MaxRegistered + 1) :
              FindEnemyByID(EnemyRegistry, k) = IF 0 <= k /\ k < n THEN k + 1 ELSE 0
        /\ dirLast.op = "FindEnemyByID" =>
              dirOut.Result = IF 0 <= dirLast.EnemyID /\ dirLast.EnemyID < n
                              THEN dirLast.EnemyID + 1 ELSE 0

\* A registry that grew by two rehashes was rebuilt over a single enemy, and
\* the id of the second enemy of the earlier list was looked up.
C23_Witness ==
    /\ EnemyRegistry.Capacity = 4 * RegistryCapacity
    /\ Len(PEnemies) = 1
    /\ dirLast.op = "FindEnemyByID" /\ dirLast.EnemyID = 1
    /\ dirOut.Result = 0

\* The points an index of the enemies in the arena consists of.
ActivePoints(enemies) ==
    { FQuadtreePoint(enemies[i].Location, i) : i \in {j \in DOMAIN enemies : enemies[j].BInArena} }

\* C24: right after UpdateSpatialPartition the index holds exactly one point
\* for each enemy of PEnemies that is in the arena (BInArena), at that
\* enemy's X/Y position, and no point of an enemy outside the arena or of an
\* earlier rebuild; GetSize() is the number of enemies in the arena.
C24_IndexAfterRebuild ==
    dirLast.op = "UpdateSpatialPartition" =>
        /\ ~dirFault
        /\ StoredPoints(SpatialPartition) = ActivePoints(PEnemies)
        /\ GetSize(SpatialPartition) = Cardinality(ActivePoints(PEnemies))

\* What holds of UpdateSpatialPartition: the index holds one point for each
\* enemy in the arena whose position is inside the root bounds, and nothing
\* else.
C24_IndexOfEnemiesInBounds ==
    (dirLast.op = "UpdateSpatialPartition" /\ ~dirFault) =>
        /\ StoredPoints(SpatialPartition) =
              { pt \in ActivePoints(PEnemies) : Contains(ArenaBounds, pt.Position) }
        /\ GetSize(SpatialPartition) = Cardinality(StoredPoints(SpatialPartition))

\* The enemies in the arena.
ActiveEnemies == { i \in DOMAIN PEnemies : PEnemies[i].BInArena }

\* C25: GetSortedEnemiesByThreat returns exactly one record (registry id,
\* score, distance) for each enemy in the arena, carrying that enemy's
\* registry key, and the sequence is ordered by non-increasing threat
\* score, that is by non-decreasing distance to the player.
C25_SortedByThreat ==
    dirLast.op = "GetSortedEnemiesByThreat" =>
        LET Result == dirOut.Result
        IN  /\ Len(Result) = Cardinality(ActiveEnemies)
            /\ { r.Tag.EnemyID : r \in Range(Result) } = { i - 1 : i \in ActiveEnemies }
            /\ \A r \in Range(Result) :
                  /\ FindEnemyByID(EnemyRegistry, r.Tag.EnemyID) = r.Tag.EnemyID + 1
                  /\ r.Tag.DistanceToPlayer =
                        Dist(PEnemies[r.Tag.EnemyID + 1].Location, dirLast.Center)
                  /\ r.Key = (10000 * FloatScale) \div (r.Tag.DistanceToPlayer + 1)
            /\ \A k \in 1..(Len(Result) - 1) :
                  /\ Result[k].Key >= Result[k + 1].Key
                  /\ Result[k].Tag.DistanceToPlayer <= Result[k + 1].Tag.DistanceToPlayer

\* Two enemies are in the arena and the one registered later is the closer
\* one: the sort put it first.
C25_Witness ==
    /\ dirLast.op = "GetSortedEnemiesByThreat"
    /\ Len(dirOut.Result) = 2
    /\ dirOut.Result[1].Tag.EnemyID > dirOut.Result[2].Tag.EnemyID
    /\ dirOut.Result[1].Tag.DistanceToPlayer < dirOut.Result[2].Tag.DistanceToPlayer

\* The distance of enemy i to the point P.
DistanceTo(i, P) == Dist(PEnemies[i].Location, P)

\* C26: after each UpdateEnemyPriorities(P) the threat queue holds exactly
\* one element for each enemy in the arena (identified by its registry key)
\* and none left over from an earlier recalculation, and the element Peek
\* and Dequeue return is an enemy in the arena at minimum distance to P.
C26_ThreatQueueAfterUpdate ==
    dirLast.op = "UpdateEnemyPriorities" =>
        LET P == dirLast.Center
            IDs == [k \in DOMAIN ThreatQueue |-> ThreatQueue[k].Element.Tag.EnemyID]
        IN  /\ Len(ThreatQueue) = Cardinality(ActiveEnemies)
            /\ Range(IDs) = { i - 1 : i \in ActiveEnemies }
            /\ \A k \in DOMAIN ThreatQueue :
                  /\ FindEnemyByID(EnemyRegistry, IDs[k]) = IDs[k] + 1
                  /\ ThreatQueue[k].Element.Tag.DistanceToPlayer = DistanceTo(IDs[k] + 1, P)
            /\ Peek(ThreatQueue).ok = (ActiveEnemies # {})
            /\ Dequeue(ThreatQueue).ok = (ActiveEnemies # {})
            /\ ActiveEnemies # {} =>
                  /\ Peek(ThreatQueue).Element = Dequeue(ThreatQueue).Element
                  /\ Peek(ThreatQueue).Element.Tag.EnemyID + 1 \in ActiveEnemies
                  /\ \A i \in ActiveEnemies :
                        DistanceTo(Peek(ThreatQueue).Element.Tag.EnemyID + 1, P)
                            <= DistanceTo(i, P)

\* Two enemies are in the arena and the one enqueued second is the closer
\* one: it is at the top of the heap.
C26_Witness ==
    /\ dirLast.op = "UpdateEnemyPriorities"
    /\ Len(ThreatQueue) = 2
    /\ ThreatQueue[1].Element.Tag.EnemyID > ThreatQueue[2].Element.Tag.EnemyID
    /\ ThreatQueue[1].Priority < ThreatQueue[2].Priority

C27_WitnessNull ==
    /\ dirLast.op = "FindNearestEnemy" /\ dirLast.Radius >= 0
    /\ dirOut.Result = 0 /\ StoredPoints(SpatialPartition) # {}

\* C29: every call of one of the four queries (FindNearestEnemy,
\* FindEnemiesInRadius, GetSortedEnemiesByThreat, FindEnemyByID) adds exactly
\* one to TotalQueries, so the TotalQueries that GetPerformanceMetrics
\* reports equals the number of query calls made so far.
C29_TotalQueriesCountsCalls == TotalQueries = edCalls

\* What the calls do to the counter: the two queries of the spatial index
\* add one, the sort and the lookup by key leave it as it is.
C29_TotalQueriesCountsSpatialQueries ==
    [][ edCalls' = edCalls + 1 =>
          TotalQueries' = TotalQueries +
              (IF dirLast'.op \in {"FindNearestEnemy", "FindEnemiesInRadius"} THEN 1 ELSE 0)
      ]_vars

\* C36: during the start delay of every wave, the first one included (from
\* NextWave until the timer calls NextWaveDelayedCallback), no Tick moves an
\* enemy from the pool into the arena.
C36_NoSpawnBeforeWaveStarts ==
    [][ (pTimerHandleCurrent = "NextWaveDelayedCallback" /\ dirLast'.op = "Tick")
        => \A i \in DOMAIN PEnemies : PEnemies'[i].BInArena => PEnemies[i].BInArena ]_vars

\* The same for the waves after the first, which start from an intermission.
C36_NoSpawnBeforeLaterWaves ==
    [][ (/\ pTimerHandleCurrent = "NextWaveDelayedCallback"
         /\ ICurrentWave > 1
         /\ dirLast'.op = "Tick")
        => \A i \in DOMAIN PEnemies : PEnemies'[i].BInArena => PEnemies[i].BInArena ]_vars

\* A Tick ran during the start delay of the second wave.
C36_TickBeforeSecondWave ==
    /\ pTimerHandleCurrent = "NextWaveDelayedCallback"
    /\ ICurrentWave > 1
    /\ dirLast.op = "Tick"

\* GetAllEnemiesInArena().Num()
EnemiesInArena == Cardinality({i \in DOMAIN PEnemies : PEnemies[i].BInArena})

\* C37: with no enemy in the arena at the start, after every Tick, enemy
\* death and wave timer the number of enemies in the arena is at most
\* IMaxEnemiesInArena and IWaveKills + (enemies in the arena) is at most
\* ICurrentWaveSize; so IWaveKills never exceeds ICurrentWaveSize, and
\* EndWave is triggered once per wave: by the kill that reaches the wave
\* size, after which the arena is empty until the next wave.
C37_WaveCounts ==
    /\ EnemiesInArena <= IMaxEnemiesInArena
    /\ IWaveKills + EnemiesInArena <= ICurrentWaveSize
    /\ IWaveKills <= ICurrentWaveSize
    /\ (IWaveKills = ICurrentWaveSize)
       <=> (m_bWaveIntermission /\ pTimerHandleCurrent = "EndWaveDelayedCallback")

\* In the second wave, after a kill, with an enemy in the arena and nothing
\* left to spawn.
C37_Witness ==
    /\ ICurrentWave = 2
    /\ IWaveKills >= 1
    /\ EnemiesInArena >= 1
    /\ IWaveKills + EnemiesInArena = ICurrentWaveSize

\* The arena is filled to its capacity with the wave not yet spawned out.
C37_WitnessCapacity ==
    /\ EnemiesInArena = IMaxEnemiesInArena
    /\ IWaveKills + EnemiesInArena < ICurrentWaveSize

(***************************************************************************)
(* UGameStateManager: the current state and its undo and redo history.     *)
(***************************************************************************)
\* UGameStateManager::MaxUndoHistory (50 in the source, scaled down)
MaxUndoHistory == 2
\* The latest clock reading the runs go to.
MaxNow == 3
\* The PlayerHealth values handed to CaptureState.
HealthValues == {100, 40}

\* FGameStateSnapshot.  CaptureState copies its eight arguments into the
\* eight fields the same way; PlayerHealth stands for them.
FGameStateSnapshot(PlayerHealth, Timestamp) ==
    [PlayerHealth |-> PlayerHealth, Timestamp |-> Timestamp]

\* What a call on the manager was and did: Result is what it returned
\* (TRUE for a call that returns nothing), Before the CurrentState it found,
\* Pushed whether its Push onto a stack was made and accepted, UndoBefore and
\* RedoBefore the stacks it found, PrevOp and PrevResult the call before it
\* and what that returned.
GSMCall(op, Result, Before, Pushed) ==
    [op |-> op, Result |-> Result, Before |-> Before, Pushed |-> Pushed,
     UndoBefore |-> UndoStack, RedoBefore |-> RedoStack,
     PrevOp |-> gsmLast.op, PrevResult |-> gsmLast.Result]

\* UGameStateManager::UGameStateManager: both stacks empty, the undo stack
\* limited to MaxUndoHistory, the redo stack unlimited, CurrentState a
\* default FGameStateSnapshot (PlayerHealth 100, Timestamp 0).
GSMConstructed ==
    /\ UndoStack = <<>>
    /\ RedoStack = <<>>
    /\ CurrentState = FGameStateSnapshot(100, 0)
    /\ gsmNow = 1
    /\ gsmLast = [op |-> "UGameStateManager", Result |-> TRUE,
                  Before |-> FGameStateSnapshot(100, 0), Pushed |-> FALSE,
                  UndoBefore |-> <<>>, RedoBefore |-> <<>>,
                  PrevOp |-> "none", PrevResult |-> FALSE]

\* Mutant of CaptureState: the redo stack is left as it is.
GSMCaptureState_KeepsRedoStack(PlayerHealth, now) ==
    LET pushed == IF CurrentState.Timestamp > 0
                  THEN Push(UndoStack, MaxUndoHistory, CurrentState)
                  ELSE [ok |-> FALSE, Data |-> UndoStack]
    IN  /\ UndoStack' = pushed.Data
        /\ CurrentState' = FGameStateSnapshot(PlayerHealth, now)
        /\ UNCHANGED RedoStack
        /\ gsmNow' = now
        /\ gsmLast' = GSMCall("CaptureState", TRUE, CurrentState, pushed.ok)
        /\ UNCHANGED GSMOthers

\* Mutant of CaptureState: the redo stack keeps its oldest state.
GSMCaptureState_KeepsOldestRedo(PlayerHealth, now) ==
    LET pushed == IF CurrentState.Timestamp > 0
                  THEN Push(UndoStack, MaxUndoHistory, CurrentState)
                  ELSE [ok |-> FALSE, Data |-> UndoStack]
    IN  /\ UndoStack' = pushed.Data
        /\ CurrentState' = FGameStateSnapshot(PlayerHealth, now)
        /\ RedoStack' = IF RedoStack = <<>> THEN <<>> ELSE << RedoStack[1] >>
        /\ gsmNow' = now
        /\ gsmLast' = GSMCall("CaptureState", TRUE, CurrentState, pushed.ok)
        /\ UNCHANGED GSMOthers

\* UGameStateManager::CaptureState; now is what FPlatformTime::Seconds()
\* returns.  The result of Push is not looked at.
GSMCaptureState(PlayerHealth, now) ==
    LET pushed == IF CurrentState.Timestamp > 0
                  THEN Push(UndoStack, MaxUndoHistory, CurrentState)
                  ELSE [ok |-> FALSE, Data |-> UndoStack]
    IN  /\ UndoStack' = pushed.Data
        /\ CurrentState' = FGameStateSnapshot(PlayerHealth, now)
        /\ RedoStack' = <<>>
        /\ gsmNow' = now
        /\ gsmLast' = GSMCall("CaptureState", TRUE, CurrentState, pushed.ok)
        /\ UNCHANGED GSMOthers

\* UGameStateManager::Undo
GSMUndo ==
    LET popped == Pop(UndoStack)
        pushed == Push(RedoStack, -1, CurrentState)
    IN  /\ IF popped.ok
           THEN /\ UndoStack' = popped.Data
                /\ RedoStack' = pushed.Data
                /\ CurrentState' = popped.Element
                /\ gsmLast' = GSMCall("Undo", TRUE, CurrentState, pushed.ok)
           ELSE /\ UNCHANGED <<UndoStack, RedoStack, CurrentState>>
                /\ gsmLast' = GSMCall("Undo", FALSE, CurrentState, FALSE)
        /\ UNCHANGED gsmNow
        /\ UNCHANGED GSMOthers

\* Mutant of Redo: the current state is not pushed onto the undo stack.
GSMRedo_KeepsUndoStack ==
    LET popped == Pop(RedoStack)
    IN  /\ IF popped.ok
           THEN /\ RedoStack' = popped.Data
                /\ UNCHANGED UndoStack
                /\ CurrentState' = popped.Element
                /\ gsmLast' = GSMCall("Redo", TRUE, CurrentState, FALSE)
           ELSE /\ UNCHANGED <<UndoStack, RedoStack, CurrentState>>
                /\ gsmLast' = GSMCall("Redo", FALSE, CurrentState, FALSE)
        /\ UNCHANGED gsmNow
        /\ UNCHANGED GSMOthers

\* UGameStateManager::Redo
GSMRedo ==
    LET popped == Pop(RedoStack)
        pushed == Push(UndoStack, MaxUndoHistory, CurrentState)
    IN  /\ IF popped.ok
           THEN /\ RedoStack' = popped.Data
                /\ UndoStack' = pushed.Data
                /\ CurrentState' = popped.Element
                /\ gsmLast' = GSMCall("Redo", TRUE, CurrentState, pushed.ok)
           ELSE /\ UNCHANGED <<UndoStack, RedoStack, CurrentState>>
                /\ gsmLast' = GSMCall("Redo", FALSE, CurrentState, FALSE)
        /\ UNCHANGED gsmNow
        /\ UNCHANGED GSMOthers

\* UGameStateManager::ClearHistory
GSMClearHistory ==
    /\ UndoStack' = <<>>
    /\ RedoStack' = <<>>
    /\ gsmLast' = GSMCall("ClearHistory", TRUE, CurrentState, FALSE)
    /\ UNCHANGED <<CurrentState, gsmNow>>
    /\ UNCHANGED GSMOthers

\* The clock does not run backwards between two captures.
GSMNext ==
    \/ \E PlayerHealth \in HealthValues, now \in gsmNow..MaxNow :
          GSMCaptureState(PlayerHealth, now)
    \/ GSMUndo
    \/ GSMRedo
    \/ GSMClearHistory

\* C30: whenever CaptureState is called while a current state exists
\* (Timestamp > 0), an Undo that follows immediately succeeds and restores
\* exactly the state that was current just before that CaptureState, after
\* any number of earlier captures, more than MaxUndoHistory included.
C30_UndoAfterCapture ==
    [][ (/\ gsmLast.op = "CaptureState"
         /\ gsmLast.Before.Timestamp > 0
         /\ gsmLast'.op = "Undo")
        => (gsmLast'.Result /\ CurrentState' = gsmLast.Before) ]_vars

\* The same for the captures whose Push was accepted: those made while the
\* undo stack held fewer than MaxUndoHistory states.
C30_UndoAfterCaptureBelowLimit ==
    [][ (/\ gsmLast.op = "CaptureState"
         /\ gsmLast.Pushed
         /\ gsmLast'.op = "Undo")
        => (gsmLast'.Result /\ CurrentState' = gsmLast.Before) ]_vars

\* A capture made with the undo stack full: the state it replaced is in
\* neither stack.
C30_CaptureAtLimit ==
    /\ gsmLast.op = "CaptureState"
    /\ gsmLast.Before.Timestamp > 0
    /\ ~gsmLast.Pushed
    /\ Len(UndoStack) = MaxUndoHistory
    /\ \A k \in DOMAIN UndoStack : UndoStack[k] # gsmLast.Before

\* The call just made put CurrentState and both stacks back to what the
\* call before it had found.
GSMBackToBefore(before) ==
    /\ CurrentState' = before.Before
    /\ UndoStack' = before.UndoBefore
    /\ RedoStack' = before.RedoBefore

\* C31: if Undo succeeds and Redo follows immediately, Redo succeeds and the
\* current state, the undo stack and the redo stack are what they were
\* before the Undo; and a successful Redo immediately followed by Undo
\* restores what was there before the Redo.
C31_UndoRedoIdentity ==
    [][ /\ (gsmLast.op = "Undo" /\ gsmLast.Result /\ gsmLast'.op = "Redo")
           => (gsmLast'.Result /\ GSMBackToBefore(gsmLast))
        /\ (gsmLast.op = "Redo" /\ gsmLast.Result /\ gsmLast'.op = "Undo")
           => (gsmLast'.Result /\ GSMBackToBefore(gsmLast)) ]_vars

\* Undo then Redo happened with states left on both stacks.
C31_Witness ==
    /\ gsmLast.op = "Redo" /\ gsmLast.Result
    /\ gsmLast.PrevOp = "Undo" /\ gsmLast.PrevResult
    /\ UndoStack # <<>> /\ RedoStack # <<>>

\* Redo then Undo happened, the Redo having filled the undo stack.
C31_WitnessRedoUndo ==
    /\ gsmLast.op = "Undo" /\ gsmLast.Result
    /\ gsmLast.PrevOp = "Redo" /\ gsmLast.PrevResult
    /\ Len(gsmLast.UndoBefore) = MaxUndoHistory

\* C32: in every state reachable through CaptureState, Undo, Redo and
\* ClearHistory, UndoStack.Size() + RedoStack.Size() <= MaxUndoHistory, so
\* the Push onto the undo stack inside Redo is never rejected and Redo never
\* loses a state.
C32_HistoryWithinLimit ==
    /\ Len(UndoStack) + Len(RedoStack) <= MaxUndoHistory
    /\ (gsmLast.op = "Redo" /\ gsmLast.Result)
       => /\ gsmLast.Pushed
          /\ UndoStack = Append(gsmLast.UndoBefore, gsmLast.Before)

\* A Redo filled the undo stack to its limit.
C32_Witness ==
    /\ gsmLast.op = "Redo" /\ gsmLast.Result
    /\ Len(UndoStack) = MaxUndoHistory
    /\ Len(gsmLast.UndoBefore) + Len(gsmLast.RedoBefore) = MaxUndoHistory

\* C33: after every CaptureState the redo stack is empty: CanRedo() is
\* false, and a Redo that follows returns false and leaves the current
\* state unchanged, however many Undo calls preceded the capture.
C33_CaptureEmptiesRedo ==
    [][ /\ gsmLast'.op = "CaptureState" => RedoStack' = <<>>
        /\ (gsmLast.op = "CaptureState" /\ gsmLast'.op = "Redo")
           => (~gsmLast'.Result /\ CurrentState' = CurrentState) ]_vars

\* A capture was made after as many Undo calls as the history allows, the
\* redo stack holding their states, and left the redo stack empty.
C33_Witness ==
    /\ gsmLast.op = "CaptureState"
    /\ gsmLast.PrevOp = "Undo" /\ gsmLast.PrevResult
    /\ Len(gsmLast.RedoBefore) = MaxUndoHistory
    /\ RedoStack = <<>>

\* A Redo was tried right after a capture.
C33_WitnessRedo ==
    /\ gsmLast.op = "Redo" /\ ~gsmLast.Result
    /\ gsmLast.PrevOp = "CaptureState"
    /\ UndoStack # <<>>

(***************************************************************************)
(* CustomHashMap with keys that share buckets: chains of up to three nodes.*)
(***************************************************************************)
\* Three keys of one bucket at capacity 4 (two buckets at capacity 8), and
\* a negative key.
ChainKeys == {0, 12, 24, -1}
\* The constructor arguments of the maps explored.
ChainCapacities == {1, 4}

HMChainNext ==
    \/ \E k \in ChainKeys, v \in HMVals : HMInsert(k, v)
    \/ \E k \in ChainKeys : HMRemove(k)
    \/ HMClear

\* The number of places of GetKeys() that hold the key.
TimesInKeys(k) == Cardinality({i \in DOMAIN GetKeys(HMap) : GetKeys(HMap)[i] = k})

\* C34: in every state of a CustomHashMap reachable through Insert, Remove,
\* Clear and the rehashes inside Insert, GetSize() is the number of chain
\* nodes, no key is in more than one node, every node is in the bucket
\* Hash(key) of the current capacity, and GetKeys() returns each stored key
\* exactly once, its length being GetSize().
C34_MapShape ==
    LET nodes == RehashOrder(Buckets)
    IN  /\ Size = Len(nodes)
        /\ \A i, j \in DOMAIN nodes : i # j => nodes[i].Key # nodes[j].Key
        /\ Len(Buckets) = Capacity
        /\ \A b \in DOMAIN Buckets : \A i \in DOMAIN Buckets[b] :
               Hash(Capacity, Buckets[b][i].Key) = b - 1
        /\ Len(GetKeys(HMap)) = Size
        /\ \A k \in AllKeys : TimesInKeys(k) = IF hmRef[k] # NoEntry THEN 1 ELSE 0

\* After rehashes and a successful Remove the map still has a chain of two
\* nodes or more.
C34_Witness ==
    /\ hmLast.op = "Remove" /\ hmOut.ok
    /\ hmRehashes >= 2
    /\ \E b \in DOMAIN Buckets : Len(Buckets[b]) >= 2

\* C35: Remove(k) on a map that contains k returns true, takes exactly one
\* off GetSize(), makes Find(k) and Contains(k) return false and leaves every
\* other key findable with its value, whether k's node is the head, in the
\* middle or the tail of its chain; a later Insert(k, v) makes k findable
\* again.
C35_RemoveUnlinksOneKey ==
    [][ (hmLast'.op = "Remove" /\ ContainsKey(HMap, hmLast'.Key)) =>
          /\ hmOut'.ok
          /\ Size' = Size - 1
          /\ ~Find(HMap', hmLast'.Key).ok
          /\ ~ContainsKey(HMap', hmLast'.Key)
          /\ \A x \in AllKeys \ {hmLast'.Key} :
                /\ Find(HMap', x) = Find(HMap, x)
                /\ ContainsKey(HMap', x) = ContainsKey(HMap, x)
          /\ \A v \in HMVals :
                Find(Insert(HMap', hmLast'.Key, v), hmLast'.Key) = [ok |-> TRUE, Value |-> v]
      ]_vars

\* The node removed was in the middle of a chain of three.
C35_Witness == hmLast.op = "Remove" /\ hmOut.ok /\ hmLast.At = 2 /\ hmLast.Of = 3

\* The node removed was the head, and the tail, of a chain of three.
C35_WitnessHead == hmLast.op = "Remove" /\ hmOut.ok /\ hmLast.At = 1 /\ hmLast.Of = 3
C35_WitnessTail == hmLast.op = "Remove" /\ hmOut.ok /\ hmLast.At = 3 /\ hmLast.Of = 3

(***************************************************************************)
(* Specifications                                                          *)
(***************************************************************************)
\* The components a specification does not exercise, freshly constructed.
PQIdle == PQStart
HMIdle == HMStart(DefaultCapacity)
QTIdle == QTStart(QTRootBounds)

DirIdle == DirStart
SortIdle == SortStart(<<>>, "Less")
AStarIdle == AStarStart({}, Cell(0, 0), Cell(0, 0))
StackIdle == StackStart(-1)
SearchIdle == SearchStart(EmptyArray, 0)
EDIdle == EDConstructed

GSMIdle == GSMConstructed

PQInit == PQStart /\ HMIdle /\ QTIdle /\ DirIdle /\ SortIdle /\ AStarIdle /\ StackIdle /\ SearchIdle /\ EDIdle /\ GSMIdle
SpecPQ == PQInit /\ [][PQNext]_vars

HMInit == HMStart(HMInitialCapacity) /\ PQIdle /\ QTIdle /\ DirIdle /\ SortIdle /\ AStarIdle /\ StackIdle /\ SearchIdle /\ EDIdle /\ GSMIdle
SpecHM == HMInit /\ [][HMNext]_vars

HMInit16 == HMStart(DefaultCapacity) /\ PQIdle /\ QTIdle /\ DirIdle /\ SortIdle /\ AStarIdle /\ StackIdle /\ SearchIdle /\ EDIdle /\ GSMIdle
SpecHM16 == HMInit16 /\ [][HMNext16]_vars

QTInit == QTStart(QTRootBounds) /\ PQIdle /\ HMIdle /\ DirIdle /\ SortIdle /\ AStarIdle /\ StackIdle /\ SearchIdle /\ EDIdle /\ GSMIdle
SpecQT == QTInit /\ [][QTNext]_vars
SpecQT1 == QTInit /\ [][QT1Next]_vars

DirInit == DirStart /\ PQIdle /\ HMIdle /\ QTIdle /\ SortIdle /\ AStarIdle /\ StackIdle /\ SearchIdle /\ EDIdle /\ GSMIdle
SpecDir == DirInit /\ [][DirNext]_vars

SortInit ==
    /\ \E arr \in SortInputs, P \in SortPredicates : SortStart(arr, P)
    /\ PQIdle /\ HMIdle /\ QTIdle /\ DirIdle /\ AStarIdle /\ StackIdle /\ SearchIdle /\ EDIdle /\ GSMIdle
SpecSort == SortInit /\ [][SortNext]_vars

AStarInit ==
    /\ \E walls \in SUBSET WallCells, s \in AStarStarts, e \in AStarGoals :
           AStarStart(walls, s, e)
    /\ PQIdle /\ HMIdle /\ QTIdle /\ DirIdle /\ SortIdle /\ StackIdle /\ SearchIdle /\ EDIdle /\ GSMIdle
SpecAStar == AStarInit /\ [][AStarNext]_vars

\* FindPath runs to its return once called, and the caller may call again.
SpecAStarFair == SpecAStar /\ WF_vars(AStarNext)

AStar3Init ==
    /\ \E walls \in SUBSET Grid3Walls : AStarStartOn(Grid3(walls), Cell(0, 0), Cell(2, 2))
    /\ PQIdle /\ HMIdle /\ QTIdle /\ DirIdle /\ SortIdle /\ StackIdle /\ SearchIdle /\ EDIdle /\ GSMIdle
SpecAStar3 == AStar3Init /\ [][AStar3Next]_vars

StackInit ==
    /\ \E cap \in 1..MaxStackCapacity : StackStart(cap)
    /\ PQIdle /\ HMIdle /\ QTIdle /\ DirIdle /\ SortIdle /\ AStarIdle /\ SearchIdle /\ EDIdle /\ GSMIdle
SpecStack == StackInit /\ [][StackNext]_vars

SearchInit ==
    /\ \E a \in SearchArrays, T \in SearchTargets : SearchStart(a, T)
    /\ PQIdle /\ HMIdle /\ QTIdle /\ DirIdle /\ SortIdle /\ AStarIdle /\ StackIdle /\ EDIdle /\ GSMIdle
SpecSearch == SearchInit /\ [][SearchNext]_vars

StructuresInit ==
    /\ PQStart /\ HMStart(HMInitialCapacity) /\ StackStart(MaxStackCapacity)
    /\ QTIdle /\ DirIdle /\ SortIdle /\ AStarIdle /\ SearchIdle /\ EDIdle /\ GSMIdle
SpecStructures == StructuresInit /\ [][StructuresNext]_vars

SpecClear == StructuresInit /\ [][ClearNext]_vars

DirectorInit ==
    /\ EDStart(NumActors)
    /\ PQIdle /\ HMIdle /\ QTIdle /\ SortIdle /\ AStarIdle /\ StackIdle /\ SearchIdle /\ GSMIdle
SpecDirector == DirectorInit /\ [][EDNext]_vars
SpecThreat == DirectorInit /\ [][ThreatNext]_vars

RegistryInit ==
    /\ \E n \in 0..MaxRegistered : EDStart(n)
    /\ PQIdle /\ HMIdle /\ QTIdle /\ SortIdle /\ AStarIdle /\ StackIdle /\ SearchIdle /\ GSMIdle
SpecRegistry == RegistryInit /\ [][RegistryNext]_vars

StateManagerInit ==
    /\ GSMConstructed
    /\ PQIdle /\ HMIdle /\ QTIdle /\ DirIdle /\ SortIdle /\ AStarIdle /\ StackIdle /\ SearchIdle /\ EDIdle
SpecStateManager == StateManagerInit /\ [][GSMNext]_vars

HMChainInit ==
    /\ \E cap \in ChainCapacities : HMStart(cap)
    /\ PQIdle /\ QTIdle /\ DirIdle /\ SortIdle /\ AStarIdle /\ StackIdle /\ SearchIdle /\ EDIdle /\ GSMIdle
SpecHMChain == HMChainInit /\ [][HMChainNext]_vars

SpecInterpolation == SearchInit /\ [][SearchInterpolationSearch]_vars

====
